---- MODULE Spec2Model ----
(***************************************************************************)
(* The usage/cost aggregation engine of atlas-simple-dashboard             *)
(* (src/server.js): pricing, bucket extraction, the three upstream         *)
(* fetchers, the rate-limit backoff and the orchestrating                  *)
(* updateTokenMetrics cycle.                                               *)
(*                                                                         *)
(* Conventions                                                             *)
(*  - A cost is an integer number of 1e-7 USD (the price of one cached     *)
(*    haiku token), so every product tokens * rate of calculateCost is     *)
(*    exact; floating-point rounding is not modelled.                      *)
(*  - A quotient the code leaves as a float (an average, a percentage      *)
(*    change) is kept as an exact fraction [num, den].                     *)
(*  - A date 'YYYY-MM-DD' of 2026 is the number of its day in the year     *)
(*    (1 = 2026-01-01); the code orders dates by localeCompare, which on   *)
(*    well-formed dates is the order of the day numbers.                   *)
(*  - A model name is the tuple of its characters.                         *)
(*  - A JS object used as a map is a function whose DOMAIN is the set of   *)
(*    keys present; where the code depends on the insertion order of an    *)
(*    object (dailyCosts) the map is a sequence of [date, cost] entries.   *)
(*  - JS runs one job at a time: every action below is one callback or     *)
(*    one microtask job, run to completion.                                *)
(***************************************************************************)
EXTENDS Integers, Sequences, FiniteSets, TLC

\* ------------------------------------------------------------------ bounds
\* Number of non-skipped cycles (passes of updateTokenMetrics that fetch).
MaxCycles == 2
\* The upstream reports no more pages on page MaxPages at the latest.
MaxPages == 2

\* ------------------------------------------------------- program constants
BackoffStepMs == 60000
BackoffCapMs == 300000
SkipDecrementMs == 5000
TimerIntervalMs == 300000
CostUnitsPerCent == 100000
HistoryDays == 30

Tiers == {"opus", "sonnet", "haiku"}

\* tokenCosts, USD per 1,000,000 tokens, in cost units per token.
tokenCosts ==
    [haiku  |-> [input |-> 10, output |-> 50,  cacheRead |-> 1],
     sonnet |-> [input |-> 30, output |-> 150, cacheRead |-> 3],
     opus   |-> [input |-> 50, output |-> 250, cacheRead |-> 5]]

\* ------------------------------------------------------------ JS helpers
Min(a, b) == IF a <= b THEN a ELSE b

EmptyMap == [k \in {} |-> 0]

\* (m[k] || d)
MapGet(m, k, d) == IF k \in DOMAIN m THEN m[k] ELSE d

\* m[k] = (m[k] || 0) + v
MapAdd(m, k, v) ==
    [x \in (DOMAIN m) \cup {k} |-> IF x = k THEN MapGet(m, k, 0) + v ELSE m[x]]

\* a slip that rounds up
RoundPercentUp(n, d) == (100 * n + d - 1) \div d

\* Math.round(n / d * 100) for n >= 0, d > 0
RoundPercent(n, d) == (200 * n + d) \div (2 * d)

RECURSIVE SumSeq(_)
SumSeq(s) == IF s = <<>> THEN 0 ELSE Head(s) + SumSeq(Tail(s))

RECURSIVE SumMap(_)
SumMap(m) ==
    IF DOMAIN m = {} THEN 0
    ELSE LET k == CHOOSE x \in DOMAIN m : TRUE
         IN m[k] + SumMap([x \in (DOMAIN m) \ {k} |-> m[x]])

\* String.prototype.toLowerCase on the letters that occur in model names
LowerChar(c) ==
    CASE c = "O" -> "o" [] c = "P" -> "p" [] c = "U" -> "u" [] c = "S" -> "s"
      [] c = "N" -> "n" [] c = "E" -> "e" [] c = "T" -> "t" [] c = "H" -> "h"
      [] c = "A" -> "a" [] c = "I" -> "i" [] c = "K" -> "k" [] c = "C" -> "c"
      [] OTHER -> c

toLowerCase(s) == [i \in 1..Len(s) |-> LowerChar(s[i])]

\* String.prototype.includes
includes(s, sub) ==
    \E i \in 1..(Len(s) - Len(sub) + 1) : SubSeq(s, i, i + Len(sub) - 1) = sub

Opus == <<"o", "p", "u", "s">>
Sonnet == <<"s", "o", "n", "n", "e", "t">>
Haiku == <<"h", "a", "i", "k", "u">>

\* ------------------------------------------------------- pricing resolver
\* a slip that looks for sonnet before opus
TierOfNameSonnetFirst(name, badge) ==
    IF includes(name, Sonnet) THEN "sonnet"
    ELSE IF includes(name, Opus) THEN "opus"
    ELSE IF includes(name, Haiku) THEN "haiku"
    ELSE IF badge # "" THEN badge
    ELSE "haiku"

\* the tier whose name the lower-cased model name contains, by priority
TierOfName(name, badge) ==
    IF includes(name, Opus) THEN "opus"
    ELSE IF includes(name, Sonnet) THEN "sonnet"
    ELSE IF includes(name, Haiku) THEN "haiku"
    ELSE IF badge # "" THEN badge
    ELSE "haiku"

\* resolveModelTier(modelName); badge is currentModel.badge ("" when unset).
\* An absent or empty name contains no tier name.
resolveModelTier(modelName, badge) == TierOfName(toLowerCase(modelName), badge)

\* tokenCosts[tier] || tokenCosts['haiku']
PricingOf(tier) ==
    IF tier \in DOMAIN tokenCosts THEN tokenCosts[tier] ELSE tokenCosts["haiku"]

\* pricing.cacheRead || pricing.input * 0.1
CacheRate(pricing) ==
    IF pricing.cacheRead # 0 THEN pricing.cacheRead ELSE pricing.input \div 10

\* a slip that prices cache reads as input
CostAtInputRate(pricing, uncachedInputTokens, outputTokens, cacheReadTokens) ==
    (uncachedInputTokens + cacheReadTokens) * pricing.input
    + outputTokens * pricing.output

\* inputCost + cacheCost + outputCost
CostAt(pricing, uncachedInputTokens, outputTokens, cacheReadTokens) ==
    uncachedInputTokens * pricing.input
    + cacheReadTokens * CacheRate(pricing)
    + outputTokens * pricing.output

\* calculateCost(uncachedInputTokens, outputTokens, modelName, cacheReadTokens)
calculateCost(uncachedInputTokens, outputTokens, modelName, cacheReadTokens, badge) ==
    CostAt(PricingOf(resolveModelTier(modelName, badge)),
           uncachedInputTokens, outputTokens, cacheReadTokens)

\* -------------------------------------------------------- bucket extractor
\* A usage response: [data: Seq(bucket), has_more, next_page]; a bucket:
\* [starting_at: date, results: Seq(result)]; a result: [uncached_input_tokens,
\* cache_read_input_tokens, output_tokens, model, api_key_id]. An absent model
\* is <<>>, an absent api_key_id or next_page is "" (all falsy in the code), an
\* absent token count is 0; a response may lack its data field and a bucket its
\* results field.

\* dailyCosts[date] = (dailyCosts[date] || 0) + cost, on an insertion-ordered object
DailyCostsAdd(dailyCosts, date, cost) ==
    IF \E i \in 1..Len(dailyCosts) : dailyCosts[i].date = date
    THEN [i \in 1..Len(dailyCosts) |->
            IF dailyCosts[i].date = date
            THEN [date |-> date, cost |-> dailyCosts[i].cost + cost]
            ELSE dailyCosts[i]]
    ELSE Append(dailyCosts, [date |-> date, cost |-> cost])

NewAgentRecord ==
    [tokens |-> 0, cost |-> 0, dailyCosts |-> <<>>, modelTokens |-> EmptyMap,
     cacheRead |-> 0, uncachedInput |-> 0]

EmptyExtract ==
    [dailyBreakdown |-> <<>>, totalTokens |-> 0, totalCost |-> 0,
     perAgent |-> EmptyMap, perModel |-> EmptyMap]

\* a slip that leaves the cost out of the per-agent accumulation
AgentAddTokensOnly(old, date, result, dayTokens, dayCost, modelTier) ==
    [tokens |-> old.tokens + dayTokens,
     cost |-> old.cost,
     dailyCosts |-> DailyCostsAdd(old.dailyCosts, date, dayCost),
     modelTokens |-> MapAdd(old.modelTokens, modelTier, dayTokens),
     cacheRead |-> old.cacheRead + result.cache_read_input_tokens,
     uncachedInput |-> old.uncachedInput + result.uncached_input_tokens]

\* the per-agent accumulation of one result
AgentAdd(old, date, result, dayTokens, dayCost, modelTier) ==
    [tokens |-> old.tokens + dayTokens,
     cost |-> old.cost + dayCost,
     dailyCosts |-> DailyCostsAdd(old.dailyCosts, date, dayCost),
     modelTokens |-> MapAdd(old.modelTokens, modelTier, dayTokens),
     cacheRead |-> old.cacheRead + result.cache_read_input_tokens,
     uncachedInput |-> old.uncachedInput + result.uncached_input_tokens]

\* perAgent[keyId], created on first use
AgentOf(perAgent, keyId) ==
    IF keyId \in DOMAIN perAgent THEN perAgent[keyId] ELSE NewAgentRecord

MapPut(m, k, v) == [x \in (DOMAIN m) \cup {k} |-> IF x = k THEN v ELSE m[x]]

\* a slip that logs the days without usage too
HasUsageOrNone(dayTokens) == dayTokens >= 0

\* if (dayTokens > 0)
HasUsage(dayTokens) == dayTokens > 0

\* a slip that groups by credential whether asked to or not
GroupsResultAlways(groupByAgent, result) == result.api_key_id # ""

\* if (groupByAgent && result.api_key_id)
GroupsResult(groupByAgent, result) == groupByAgent /\ result.api_key_id # ""

\* a slip that counts only the output tokens of a result for its model tier
AddResultOutputPerModel(acc, date, result, groupByAgent, dayTokens, dayCost, modelTier) ==
    [dailyBreakdown |->
        IF HasUsage(dayTokens)
        THEN Append(acc.dailyBreakdown,
                    [date |-> date, tokens |-> dayTokens, cost |-> dayCost,
                     uncached_input |-> result.uncached_input_tokens,
                     cache_read |-> result.cache_read_input_tokens,
                     output |-> result.output_tokens, model |-> result.model,
                     api_key_id |-> result.api_key_id])
        ELSE acc.dailyBreakdown,
     totalTokens |-> acc.totalTokens + dayTokens,
     totalCost |-> acc.totalCost + dayCost,
     perAgent |->
        IF GroupsResult(groupByAgent, result)
        THEN MapPut(acc.perAgent, result.api_key_id,
                    AgentAdd(AgentOf(acc.perAgent, result.api_key_id), date, result,
                             dayTokens, dayCost, modelTier))
        ELSE acc.perAgent,
     perModel |-> MapAdd(acc.perModel, modelTier, result.output_tokens)]

\* The body of bucket.results.forEach once dayTokens, dayCost and modelTier are known
AddResult(acc, date, result, groupByAgent, dayTokens, dayCost, modelTier) ==
    [dailyBreakdown |->
        IF HasUsage(dayTokens)
        THEN Append(acc.dailyBreakdown,
                    [date |-> date, tokens |-> dayTokens, cost |-> dayCost,
                     uncached_input |-> result.uncached_input_tokens,
                     cache_read |-> result.cache_read_input_tokens,
                     output |-> result.output_tokens, model |-> result.model,
                     api_key_id |-> result.api_key_id])
        ELSE acc.dailyBreakdown,
     totalTokens |-> acc.totalTokens + dayTokens,
     totalCost |-> acc.totalCost + dayCost,
     perAgent |->
        IF GroupsResult(groupByAgent, result)
        THEN MapPut(acc.perAgent, result.api_key_id,
                    AgentAdd(AgentOf(acc.perAgent, result.api_key_id), date, result,
                             dayTokens, dayCost, modelTier))
        ELSE acc.perAgent,
     perModel |-> MapAdd(acc.perModel, modelTier, dayTokens)]

\* The body of bucket.results.forEach for one result of the bucket starting at date
ExtractResult(acc, date, result, groupByAgent, badge) ==
    AddResult(acc, date, result, groupByAgent,
              result.uncached_input_tokens + result.cache_read_input_tokens
                + result.output_tokens,
              calculateCost(result.uncached_input_tokens, result.output_tokens,
                            result.model, result.cache_read_input_tokens, badge),
              resolveModelTier(result.model, badge))

RECURSIVE ExtractResults(_, _, _, _, _)
ExtractResults(acc, date, results, groupByAgent, badge) ==
    IF results = <<>> THEN acc
    ELSE ExtractResults(ExtractResult(acc, date, Head(results), groupByAgent, badge),
                        date, Tail(results), groupByAgent, badge)

\* if (bucket.results && Array.isArray(bucket.results)) for one bucket
ExtractBucket(acc, bucket, groupByAgent, badge) ==
    IF "results" \in DOMAIN bucket
    THEN ExtractResults(acc, bucket.starting_at, bucket.results, groupByAgent, badge)
    ELSE acc

RECURSIVE ExtractBuckets(_, _, _, _)
ExtractBuckets(acc, data, groupByAgent, badge) ==
    IF data = <<>> THEN acc
    ELSE ExtractBuckets(ExtractBucket(acc, Head(data), groupByAgent, badge),
                        Tail(data), groupByAgent, badge)

\* Global cache totals, summed over dailyBreakdown
WithCacheTotals(acc) ==
    [dailyBreakdown |-> acc.dailyBreakdown,
     totalTokens |-> acc.totalTokens,
     totalCost |-> acc.totalCost,
     perAgent |-> acc.perAgent,
     perModel |-> acc.perModel,
     globalCacheRead |->
        SumSeq([i \in 1..Len(acc.dailyBreakdown) |-> acc.dailyBreakdown[i].cache_read]),
     globalUncachedInput |->
        SumSeq([i \in 1..Len(acc.dailyBreakdown) |-> acc.dailyBreakdown[i].uncached_input])]

\* extractDailyBreakdown(usageData, groupByAgent)
extractDailyBreakdown(usageData, groupByAgent, badge) ==
    WithCacheTotals(IF "data" \in DOMAIN usageData
                    THEN ExtractBuckets(EmptyExtract, usageData.data, groupByAgent, badge)
                    ELSE EmptyExtract)

\* ------------------------------------------------------------ upstream feed
\* What the two upstream feeds can answer. The pages are fixed samples; which
\* one answers a request, or which failure does, is the upstream's choice.
Today == 40

KeyIds == {"k1", "k2"}

ClaudeOpus == <<"c", "l", "a", "u", "d", "e", "-", "O", "p", "u", "s", "-", "4">>
ClaudeSonnet == <<"c", "l", "a", "u", "d", "e", "-", "s", "o", "n", "n", "e", "t">>
ClaudeHaiku == <<"c", "l", "a", "u", "d", "e", "-", "3", "-", "h", "a", "i", "k", "u">>
OtherModel == <<"g", "p", "t">>

Result(u, c, o, model, key) ==
    [uncached_input_tokens |-> u, cache_read_input_tokens |-> c, output_tokens |-> o,
     model |-> model, api_key_id |-> key]

Bucket(date, results) == [starting_at |-> date, results |-> results]

\* all-time usage: a page with a cursor to a next page, and a last page
UsagePageMore ==
    [data |-> << Bucket(30, << Result(2, 1, 1, ClaudeOpus, "k1"),
                               Result(1, 0, 0, ClaudeHaiku, "k2") >>),
                 Bucket(31, << >>) >>,
     has_more |-> TRUE, next_page |-> "page_2"]

UsagePageLast ==
    [data |-> << Bucket(30, << Result(0, 2, 1, ClaudeSonnet, "k1") >>),
                 Bucket(35, << Result(1, 1, 0, ClaudeOpus, "k1"),
                               Result(0, 0, 0, <<>>, "k2") >>) >>,
     has_more |-> FALSE, next_page |-> ""]

\* today's usage: minute buckets of the current day, or no usage yet
UsagePageToday ==
    [data |-> << Bucket(Today, << Result(1, 2, 1, ClaudeHaiku, "k1"),
                                  Result(3, 0, 1, OtherModel, "") >>) >>,
     has_more |-> FALSE, next_page |-> ""]

UsagePageEmpty == [data |-> << >>, has_more |-> FALSE, next_page |-> ""]

AllTimePages == {UsagePageMore, UsagePageLast}
TodayPages == {UsagePageToday, UsagePageEmpty}

\* billing feed: a bucket's results carry an amount in cents
CostPageMore ==
    [data |-> [d \in 1..10 |->
                  Bucket(d, IF d = 4 THEN << [amount |-> 0] >>
                            ELSE << [amount |-> 3], [amount |-> d % 3] >>)],
     has_more |-> TRUE, next_page |-> "page_2"]

\* the days of the last page: 11 up to yesterday, with no bucket for day 30
CostDays == [i \in 1..(Today - 12) |-> IF i + 10 < 30 THEN i + 10 ELSE i + 11]

CostPageLast ==
    [data |-> [i \in 1..Len(CostDays) |->
                  Bucket(CostDays[i], << [amount |-> 1 + (CostDays[i] % 4)] >>)],
     has_more |-> FALSE, next_page |-> ""]

CostPages == {CostPageMore, CostPageLast}

\* The failures of one request that are not throttling: exec error, empty
\* stdout, JSON.parse throwing, an error object of another type.
FailureKinds == {"exec_error", "empty", "unparseable", "authentication_error"}

\* a slip that follows has_more without looking at the cursor
HasNextPageFlagOnly(page) == page.has_more

\* usageData.has_more && usageData.next_page
HasNextPage(page) == page.has_more /\ page.next_page # ""

\* The pages the upstream may answer request number pageNo of one fetch with.
Answers(pages, pageNo) ==
    {p \in pages : pageNo < MaxPages \/ ~HasNextPage(p)}

\* ------------------------------------------------------- rate-limit controller
\* a slip that computes the backoff from the count before the increment
BackoffForStale(hitCount) == Min(BackoffCapMs, BackoffStepMs * (hitCount - 1))

\* Math.min(5 * 60 * 1000, 60 * 1000 * rateLimitHitCount)
BackoffFor(hitCount) == Min(BackoffCapMs, BackoffStepMs * hitCount)

\* a slip that resets only when the estimate succeeded and the billed cost did not
ResetConditionExclusive(todaysData, allTimeCosts, costApiData) ==
    todaysData.ok /\ allTimeCosts.ok /\ ~costApiData.ok

\* a slip that gates on the first backoff step instead of on zero
BackoffActiveAboveStep(backoffMs) == backoffMs > BackoffStepMs

\* if (rateLimitBackoffMs > 0)
BackoffActive(backoffMs) == backoffMs > 0

\* if (todaysData && (allTimeCosts || costApiData))
ResetCondition(todaysData, allTimeCosts, costApiData) ==
    todaysData.ok /\ (allTimeCosts.ok \/ costApiData.ok)


\* --------------------------------------------------------------- the state
VARIABLES
    rateLimitHitCount,   \* let rateLimitHitCount
    rateLimitBackoffMs,  \* let rateLimitBackoffMs
    tokenMetrics,        \* let tokenMetrics, the published snapshot
    agentsConfig,        \* agentsConfig.agents: Seq([name, slug, apiKeyId]), as in agents.json
    adminApiKey,         \* agentsConfig.adminApiKey; "" is null
    costAlertThreshold,  \* let costAlertThreshold, in cost units; 0 is null
    currentModel,        \* currentModel.badge
    apiKey,              \* process.env.ANTHROPIC_API_KEY; "" is unset
    cycles,              \* the passes of updateTokenMetrics that fetch, by number
    started,             \* how many of them have started
    event,               \* what the job that ran last did (its log lines)
    call,                \* the last direct call of a function: [fn, args, result], all records
    manualTasks,         \* let manualTasks: Seq([id, status])
    clock,               \* the host's clock: [day, utcOffset], the UTC date and the
                         \* offset in hours of the host's local time from UTC
    launchEnv,           \* ANTHROPIC_API_KEY in the environment the process is started with
    configFile,          \* apiKey of config/anthropic.json; "" when the file has none
    tasksFile,           \* config/tasks.json: [exists, tasks]
    thresholdFile,       \* costAlertThreshold of config/anthropic.json; 0 when it has none
    supabase             \* supabaseReady, the tasks table, and what is in flight between
                         \* the table and this process: [ready, rows, notices, adds, sync]

vars == << rateLimitHitCount, rateLimitBackoffMs, tokenMetrics, agentsConfig, adminApiKey,
           costAlertThreshold, currentModel, apiKey, cycles, started, event, call,
           manualTasks, clock, launchEnv, configFile, tasksFile, thresholdFile, supabase >>

CycleIds == 1..MaxCycles

\* resolve(null)
Null == [ok |-> FALSE]

\* ------------------------------------------------------------ the date windows
\* starting_at and ending_at of a request, as days (the window runs from 00:00:00
\* of the first to 23:59:59 of the second)
NoWindow == [from |-> 0, to |-> 0]

\* startOfDay .. endOfDay of the UTC date of now
TodayWindow(now) == [from |-> now.day, to |-> now.day]

\* startOfYear (2026-01-01) .. endOfYesterday of the UTC date of now
HistoryWindow(now) == [from |-> 1, to |-> now.day - 1]

\* the request a fetcher issues: url.searchParams of the exec'ed curl
Request(f, window) == [f EXCEPT !.window = window]

\* the request of the next page, issued by the exec callback of a page that has one
Paging(f, page, now) == IF HasNextPage(page) THEN Request(f, HistoryWindow(now)) ELSE f

\* ------------------------------------------------------------ fetchTodaysUsage
\* sent: the requests (exec of curl) this invocation has issued; window: the
\* date window of the last of them
TodayRequested ==
    [status |-> "pending", value |-> Null, throttled |-> FALSE, sent |-> 1,
     window |-> NoWindow]

\* if (!apiKey) { resolve(null); return; }
NoKeyFetch(f) == [f EXCEPT !.status = "resolved", !.value = Null, !.sent = 0]

\* the exec callback on a parsed usage response
TodayData(ex) ==
    [ok |-> TRUE, totalTokens |-> ex.totalTokens, cost |-> ex.totalCost,
     perAgent |-> ex.perAgent, perModel |-> ex.perModel,
     dailyBreakdown |-> ex.dailyBreakdown,
     globalCacheRead |-> ex.globalCacheRead,
     globalUncachedInput |-> ex.globalUncachedInput]

TodayOnPage(f, page, groupByAgent, badge) ==
    [f EXCEPT !.status = "resolved",
              !.value = TodayData(extractDailyBreakdown(page, groupByAgent, badge))]

\* a slip that does not tell a throttling response from any other failure
TodayOnFailureUnflagged(f, throttled) ==
    [f EXCEPT !.status = "resolved", !.value = Null]

\* a slip that issues the request again after a failure
TodayOnFailureRetries(f, throttled) ==
    [f EXCEPT !.sent = @ + 1, !.throttled = throttled]

\* the exec callback on an error, an empty or unparseable body, an error object
TodayOnFailure(f, throttled) ==
    [f EXCEPT !.status = "resolved", !.value = Null, !.throttled = throttled]

\* ----------------------------------------------------------- fetchAllTimeCosts
\* acc: the accumulated* arguments of the request in flight; frames: for every
\* page already merged, what its closure holds until the next page resolves;
\* received: the pages answered so far.
AllTimeRequested ==
    [status |-> "pending", value |-> Null, throttled |-> FALSE, cursor |-> "",
     acc |-> [perAgent |-> EmptyMap, perModel |-> EmptyMap, breakdown |-> <<>>,
              cacheRead |-> 0, uncached |-> 0],
     frames |-> <<>>, received |-> <<>>, sent |-> 1, window |-> NoWindow]

MergeMap(a, b) ==
    [k \in (DOMAIN a) \cup (DOMAIN b) |-> MapGet(a, k, 0) + MapGet(b, k, 0)]

RECURSIVE MergeDailyCosts(_, _)
MergeDailyCosts(merged, pageDailyCosts) ==
    IF pageDailyCosts = <<>> THEN merged
    ELSE MergeDailyCosts(
            DailyCostsAdd(merged, Head(pageDailyCosts).date, Head(pageDailyCosts).cost),
            Tail(pageDailyCosts))

\* the merge of one key's page data into its accumulated record
AgentMerge(old, data) ==
    [tokens |-> old.tokens + data.tokens,
     cost |-> old.cost + data.cost,
     cacheRead |-> old.cacheRead + data.cacheRead,
     uncachedInput |-> old.uncachedInput + data.uncachedInput,
     dailyCosts |-> MergeDailyCosts(old.dailyCosts, data.dailyCosts),
     modelTokens |-> MergeMap(old.modelTokens, data.modelTokens)]

\* Merge per-agent data across pages
MergePerAgent(accumulated, pagePerAgent) ==
    [keyId \in (DOMAIN accumulated) \cup (DOMAIN pagePerAgent) |->
        IF keyId \notin DOMAIN pagePerAgent THEN accumulated[keyId]
        ELSE AgentMerge(AgentOf(accumulated, keyId), pagePerAgent[keyId])]

\* (a || b) on numbers
OrElse(a, b) == IF a # 0 THEN a ELSE b

\* a slip that resolves with the later pages' totals only
AllTimeThenDropsPage(frame, nextPageData) == nextPageData

\* The .then callback of one page's closure, given what the next page resolved to
AllTimeThen(frame, nextPageData) ==
    [ok |-> TRUE,
     totalTokens |-> frame.pageTokens + nextPageData.totalTokens,
     cost |-> frame.pageCost + nextPageData.cost,
     perAgent |-> nextPageData.perAgent,
     perModel |-> nextPageData.perModel,
     dailyBreakdown |-> nextPageData.dailyBreakdown,
     globalCacheRead |-> OrElse(nextPageData.globalCacheRead, frame.mergedCacheRead),
     globalUncachedInput |-> OrElse(nextPageData.globalUncachedInput, frame.mergedUncached)]

\* Resolving the chain of closures, innermost first
RECURSIVE AllTimeUnwind(_, _)
AllTimeUnwind(frames, data) ==
    IF frames = <<>> THEN data
    ELSE AllTimeUnwind(SubSeq(frames, 1, Len(frames) - 1),
                       AllTimeThen(frames[Len(frames)], data))

\* the merged* values of one page: the accumulated* arguments plus the page
AllTimeMerge(acc, ex, groupByAgent) ==
    [perAgent |-> IF groupByAgent THEN MergePerAgent(acc.perAgent, ex.perAgent)
                  ELSE acc.perAgent,
     perModel |-> MergeMap(acc.perModel, ex.perModel),
     breakdown |-> acc.breakdown \o ex.dailyBreakdown,
     cacheRead |-> acc.cacheRead + ex.globalCacheRead,
     uncached |-> acc.uncached + ex.globalUncachedInput,
     pageTokens |-> ex.totalTokens,
     pageCost |-> ex.totalCost]

\* what the closure of a page with a next page keeps
AllTimeFrame(merged) ==
    [pageTokens |-> merged.pageTokens, pageCost |-> merged.pageCost,
     mergedCacheRead |-> merged.cacheRead, mergedUncached |-> merged.uncached]

\* what the last page resolves to
AllTimeLast(merged) ==
    [ok |-> TRUE, totalTokens |-> merged.pageTokens, cost |-> merged.pageCost,
     perAgent |-> merged.perAgent, perModel |-> merged.perModel,
     dailyBreakdown |-> merged.breakdown,
     globalCacheRead |-> merged.cacheRead,
     globalUncachedInput |-> merged.uncached]

\* the accumulated* arguments handed to the request of the next page
AllTimeAcc(merged) ==
    [perAgent |-> merged.perAgent, perModel |-> merged.perModel,
     breakdown |-> merged.breakdown, cacheRead |-> merged.cacheRead,
     uncached |-> merged.uncached]

AllTimeStep(f, page, merged) ==
    IF HasNextPage(page)
    THEN [f EXCEPT !.cursor = page.next_page, !.acc = AllTimeAcc(merged),
                   !.frames = Append(f.frames, AllTimeFrame(merged)),
                   !.received = Append(f.received, page),
                   !.sent = @ + 1]
    ELSE [f EXCEPT !.status = "resolved",
                   !.value = AllTimeUnwind(f.frames, AllTimeLast(merged)),
                   !.acc = AllTimeAcc(merged),
                   !.received = Append(f.received, page)]

\* the exec callback on a parsed usage response
AllTimeOnPage(f, page, groupByAgent, badge) ==
    AllTimeStep(f, page,
                AllTimeMerge(f.acc, extractDailyBreakdown(page, groupByAgent, badge),
                             groupByAgent))

\* the exec callback on a failure: the page's own promise resolves to null; the
\* .then callback of the page before it resolves nothing on null, so the promise
\* of the first page stays pending for ever ("stalled")
AllTimeOnFailure(f, throttled) ==
    [f EXCEPT !.status = IF f.frames = <<>> THEN "resolved" ELSE "stalled",
              !.value = Null, !.throttled = throttled]

\* --------------------------------------------------------- fetchAllTimeCostAPI
CostApiRequested ==
    [status |-> "pending", value |-> Null, throttled |-> FALSE, cursor |-> "",
     acc |-> [cost |-> 0, dailyBreakdown |-> <<>>], received |-> <<>>,
     sent |-> 1, window |-> NoWindow]

\* dayCostDollars of one bucket
DayCost(bucket) ==
    SumSeq([i \in 1..Len(bucket.results) |-> bucket.results[i].amount]) * CostUnitsPerCent

RECURSIVE CostPageBreakdown(_)
CostPageBreakdown(data) ==
    IF data = <<>> THEN <<>>
    ELSE (IF DayCost(Head(data)) > 0
          THEN << [date |-> Head(data).starting_at, cost |-> DayCost(Head(data))] >>
          ELSE << >>) \o CostPageBreakdown(Tail(data))

\* accumulatedCost and accumulatedDailyBreakdown plus the page
CostApiMerge(acc, page) ==
    [cost |-> acc.cost + SumSeq([i \in 1..Len(page.data) |-> DayCost(page.data[i])]),
     dailyBreakdown |-> acc.dailyBreakdown \o CostPageBreakdown(page.data)]

CostApiStep(f, page, merged) ==
    IF HasNextPage(page)
    THEN [f EXCEPT !.cursor = page.next_page, !.acc = merged,
                   !.received = Append(f.received, page),
                   !.sent = @ + 1]
    ELSE [f EXCEPT !.status = "resolved",
                   !.value = [ok |-> TRUE, actualCost |-> merged.cost,
                              dailyBreakdown |-> merged.dailyBreakdown],
                   !.acc = merged,
                   !.received = Append(f.received, page)]

\* the exec callback on a parsed cost report
CostApiOnPage(f, page) == CostApiStep(f, page, CostApiMerge(f.acc, page))

\* a slip that resolves to what the pages before the failure added up to
CostApiOnFailurePartial(f, throttled) ==
    [f EXCEPT !.status = "resolved",
              !.value = IF f.received = << >> THEN Null
                        ELSE [ok |-> TRUE, actualCost |-> f.acc.cost,
                              dailyBreakdown |-> f.acc.dailyBreakdown],
              !.throttled = throttled]

\* the exec callback on a failure: .then(resolve) hands the null to every page before
CostApiOnFailure(f, throttled) ==
    [f EXCEPT !.status = "resolved", !.value = Null, !.throttled = throttled]


\* ------------------------------------------------- updateTokenMetrics, after await
Frac(n, d) == [num |-> n, den |-> d]

\* Array.prototype.slice(from, to) with from, to >= 0 already resolved
Slice(s, from, to) == SubSeq(s, from + 1, Min(to, Len(s)))

Max(a, b) == IF a >= b THEN a ELSE b

\* s.slice(-n)
LastN(s, n) == Slice(s, Max(Len(s) - n, 0), Len(s))

MonthLengths == << 31, 28, 31, 30, 31, 30, 31, 31, 30, 31, 30, 31 >>

DaysBefore(month) == SumSeq(SubSeq(MonthLengths, 1, month - 1))

\* getUTCMonth() + 1 of a day of 2026
MonthOf(day) ==
    CHOOSE m \in 1..12 : DaysBefore(m) < day /\ day <= DaysBefore(m) + MonthLengths[m]

\* `${year}-${month}-01`
MonthStart(day) == DaysBefore(MonthOf(day)) + 1

\* getUTCDate()
DayOfMonth(day) == day - DaysBefore(MonthOf(day))

\* new Date(year, month + 1, 0).getUTCDate(): the Date is midnight of the last day
\* of the month in the host's local time, which east of Greenwich is still the
\* day before in UTC
DaysInMonth(day, utcOffset) ==
    IF utcOffset > 0 THEN MonthLengths[MonthOf(day)] - 1 ELSE MonthLengths[MonthOf(day)]

\* entries.forEach(entry => map[entry.date] = (map[entry.date] || 0) + (entry.cost || 0))
RECURSIVE AddEntries(_, _)
AddEntries(map, entries) ==
    IF entries = <<>> THEN map
    ELSE AddEntries(MapAdd(map, Head(entries).date, Head(entries).cost), Tail(entries))

\* Object.entries(dailyCostMap).map(...).sort by date
RECURSIVE SortedDays(_)
SortedDays(map) ==
    IF DOMAIN map = {} THEN <<>>
    ELSE LET d == CHOOSE x \in DOMAIN map : \A y \in DOMAIN map : x <= y
         IN << [date |-> d, cost |-> map[d]] >>
            \o SortedDays([x \in (DOMAIN map) \ {d} |-> map[x]])

SumCost(days) == SumSeq([i \in 1..Len(days) |-> days[i].cost])

\* mean of the costs of days, 0 when there are none
MeanCost(days) == IF Len(days) > 0 THEN Frac(SumCost(days), Len(days)) ELSE Frac(0, 1)

\* Build the daily cost map
DailyCostMap(todaysData, allTimeCosts, costApiData) ==
    LET historical == IF costApiData.ok THEN costApiData.dailyBreakdown
                      ELSE IF allTimeCosts.ok THEN allTimeCosts.dailyBreakdown
                      ELSE <<>>
        live == IF todaysData.ok THEN todaysData.dailyBreakdown ELSE <<>>
    IN AddEntries(AddEntries(EmptyMap, historical), live)

\* a slip that compares without asking whether a threshold is set
ThresholdExceededUnset(threshold, projectedMonthly) ==
    projectedMonthly.num > threshold * projectedMonthly.den

\* costAlertThreshold && projectedMonthly > costAlertThreshold
ThresholdExceeded(threshold, projectedMonthly) ==
    threshold # 0 /\ projectedMonthly.num > threshold * projectedMonthly.den

\* a slip that keeps the earliest days
DailyCostHistoryOldest(sortedDays) == Slice(sortedDays, 0, HistoryDays)

\* sortedDays.slice(-30)
DailyCostHistory(sortedDays) == LastN(sortedDays, HistoryDays)

\* Cost Projection & Alerts: the projection fields of the snapshot
Projection(dailyCostMap, now, threshold) ==
    LET sortedDays == SortedDays(dailyCostMap)
        last7 == LastN(sortedDays, 7)
        prior7 == Slice(sortedDays, Max(Len(sortedDays) - 14, 0), Max(Len(sortedDays) - 7, 0))
        avgDaily7 == MeanCost(last7)
        avgPrior7 == MeanCost(prior7)
        mtdCost == SumCost(SelectSeq(sortedDays, LAMBDA d : d.date >= MonthStart(now.day)))
        daysRemaining == DaysInMonth(now.day, now.utcOffset) - DayOfMonth(now.day)
        projectedMonthly == Frac(mtdCost * avgDaily7.den + avgDaily7.num * daysRemaining,
                                 avgDaily7.den)
        weekOverWeek ==
            IF avgPrior7.num > 0
            THEN Frac((avgDaily7.num * avgPrior7.den - avgPrior7.num * avgDaily7.den) * 100,
                      avgPrior7.num * avgDaily7.den)
            ELSE Frac(0, 1)
    IN [dailyCostHistory |-> DailyCostHistory(sortedDays),
        projectedMonthly |-> projectedMonthly,
        weekOverWeek |-> weekOverWeek,
        mtdCost |-> mtdCost,
        avgDaily7 |-> avgDaily7,
        costAlertThreshold |-> threshold,
        thresholdExceeded |-> ThresholdExceeded(threshold, projectedMonthly)]

\* a map of token counts as rounded percentages of their total
Percentages(tokens) ==
    LET total == SumMap(tokens)
    IN [m \in DOMAIN tokens |-> IF total > 0 THEN RoundPercent(tokens[m], total) ELSE 0]

\* data?.perAgent?.[keyId], the empty record standing for undefined
AgentData(data, keyId) ==
    IF data.ok /\ keyId \in DOMAIN data.perAgent THEN data.perAgent[keyId]
    ELSE NewAgentRecord

\* the body of agentsConfig.agents.forEach in the per-agent cost tracking
AgentSummary(agent, todaysData, allTimeCosts) ==
    LET todayAgentData == AgentData(todaysData, agent.apiKeyId)
        allTimeAgentData == AgentData(allTimeCosts, agent.apiKeyId)
        recentCosts == LastN(allTimeAgentData.dailyCosts, 7)
        agentModelTokens == MergeMap(allTimeAgentData.modelTokens, todayAgentData.modelTokens)
        agentCacheRead == allTimeAgentData.cacheRead + todayAgentData.cacheRead
        agentUncached == allTimeAgentData.uncachedInput + todayAgentData.uncachedInput
        totalInput == agentCacheRead + agentUncached
    IN [name |-> agent.name,
        today |-> todayAgentData.cost,
        allTime |-> allTimeAgentData.cost + todayAgentData.cost,
        estimatedDaily |-> MeanCost(recentCosts),
        todayTokens |-> todayAgentData.tokens,
        models |-> Percentages(agentModelTokens),
        cacheHitRate |-> IF totalInput > 0 THEN RoundPercent(agentCacheRead, totalInput) ELSE 0]

\* agentBreakdown
AgentBreakdown(agents, todaysData, allTimeCosts) ==
    [slug \in {agents[i].slug : i \in 1..Len(agents)} |->
        LET last == CHOOSE i \in 1..Len(agents) :
                        /\ agents[i].slug = slug
                        /\ \A j \in 1..Len(agents) : agents[j].slug = slug => j <= i
        IN AgentSummary(agents[last], todaysData, allTimeCosts)]

\* a slip that prefers the token estimate to the billed cost
AllTimeTotalEstimateFirst(total, allTimeCosts, costApiData) ==
    IF allTimeCosts.ok THEN [cost |-> allTimeCosts.cost, source |-> "usage_api"]
    ELSE IF costApiData.ok THEN [cost |-> costApiData.actualCost, source |-> "cost_api"]
    ELSE total

\* tokenMetrics.allTime.total: the billed cost when there is one, else the estimate
AllTimeTotal(total, allTimeCosts, costApiData) ==
    IF costApiData.ok THEN [cost |-> costApiData.actualCost, source |-> "cost_api"]
    ELSE IF allTimeCosts.ok THEN [cost |-> allTimeCosts.cost, source |-> "usage_api"]
    ELSE total

\* The statements of updateTokenMetrics after the await, up to the broadcast:
\* the snapshot they leave in tokenMetrics
Publish(tm, todaysData, allTimeCosts, costApiData, hasAgents, agents, threshold, now) ==
    LET globalModelTokens ==
            MergeMap(IF allTimeCosts.ok THEN allTimeCosts.perModel ELSE EmptyMap,
                     IF todaysData.ok THEN todaysData.perModel ELSE EmptyMap)
        globalCR == (IF allTimeCosts.ok THEN allTimeCosts.globalCacheRead ELSE 0)
                    + (IF todaysData.ok THEN todaysData.globalCacheRead ELSE 0)
        globalUI == (IF allTimeCosts.ok THEN allTimeCosts.globalUncachedInput ELSE 0)
                    + (IF todaysData.ok THEN todaysData.globalUncachedInput ELSE 0)
        projection == Projection(DailyCostMap(todaysData, allTimeCosts, costApiData),
                                 now, threshold)
    IN [today |-> IF todaysData.ok
                  THEN [tokens |-> todaysData.totalTokens, cost |-> todaysData.cost]
                  ELSE tm.today,
        allTime |-> AllTimeTotal(tm.allTime, allTimeCosts, costApiData),
        perAgent |-> IF hasAgents /\ (todaysData.ok \/ allTimeCosts.ok)
                     THEN AgentBreakdown(agents, todaysData, allTimeCosts)
                     ELSE tm.perAgent,
        modelBreakdown |-> IF SumMap(globalModelTokens) > 0
                           THEN Percentages(globalModelTokens)
                           ELSE tm.modelBreakdown,
        cacheHitRate |-> IF globalCR + globalUI > 0
                         THEN RoundPercent(globalCR, globalCR + globalUI)
                         ELSE tm.cacheHitRate,
        dailyCostHistory |-> projection.dailyCostHistory,
        projectedMonthly |-> projection.projectedMonthly,
        weekOverWeek |-> projection.weekOverWeek,
        mtdCost |-> projection.mtdCost,
        avgDaily7 |-> projection.avgDaily7,
        costAlertThreshold |-> projection.costAlertThreshold,
        thresholdExceeded |-> projection.thresholdExceeded,
        lastUpdated |-> tm.lastUpdated + 1]


\* ------------------------------------------------------------------- Init
\* tokenMetrics.projectedMonthly is undefined until a pass has assigned it
NoProjection == [num |-> 0, den |-> 0]

\* let tokenMetrics = { ... }: neither projectedMonthly nor costAlertThreshold
\* nor thresholdExceeded is a field of the object the module creates
InitialMetrics ==
    [today |-> [tokens |-> 0, cost |-> 0],
     allTime |-> [cost |-> 0, source |-> ""],
     perAgent |-> EmptyMap,
     modelBreakdown |-> EmptyMap,
     cacheHitRate |-> 0,
     dailyCostHistory |-> <<>>,
     projectedMonthly |-> NoProjection,
     weekOverWeek |-> Frac(0, 1),
     mtdCost |-> 0,
     avgDaily7 |-> Frac(0, 1),
     costAlertThreshold |-> 0,
     thresholdExceeded |-> FALSE,
     lastUpdated |-> 0]

Agent(name, slug, keyId) == [name |-> name, slug |-> slug, apiKeyId |-> keyId]

TwoAgents == << Agent("Nate", "nate", "k1"), Agent("Alex", "alex", "k2") >>

AgentConfigs == { << >>, TwoAgents }

UnusedCycle ==
    [pc |-> "unused", hasAgents |-> FALSE,
     today |-> [TodayRequested EXCEPT !.status = "idle", !.sent = 0],
     allTime |-> [AllTimeRequested EXCEPT !.status = "idle", !.sent = 0],
     costApi |-> [CostApiRequested EXCEPT !.status = "idle", !.sent = 0]]

\* what one job did: which handler ran, how many upstream requests it issued
\* (exec of curl), whether it called broadcast, how many refreshes it scheduled
Event(op, requests, broadcast) ==
    [op |-> op, requests |-> requests, broadcast |-> broadcast, timeouts |-> 0]

\* the same job, having called setTimeout(updateTokenMetrics, 2000) n times
Scheduling(ev, n) == [ev EXCEPT !.timeouts = n]

\* config/tasks.json does not exist
NoFile == [exists |-> FALSE, tasks |-> << >>]

\* let supabaseReady = false; an empty tasks table, nothing in flight
NoSupabase ==
    [ready |-> FALSE, rows |-> << >>, notices |-> {}, adds |-> {},
     sync |-> [status |-> "idle", rows |-> << >>]]

\* no function has been called directly
NoCall == [fn |-> "", args |-> << >>, result |-> << >>]

Init ==
    /\ rateLimitHitCount = 0
    /\ rateLimitBackoffMs = 0
    /\ tokenMetrics = InitialMetrics
    /\ agentsConfig \in AgentConfigs
    /\ costAlertThreshold = 0
    /\ currentModel = "haiku"
    /\ adminApiKey = ""
    /\ apiKey \in {"", "sk-env"}
    /\ cycles = [c \in CycleIds |-> UnusedCycle]
    /\ started = 0
    /\ event = Event("init", 0, FALSE)
    /\ call = NoCall
    /\ manualTasks = << >>
    /\ clock = [day |-> Today, utcOffset |-> 0]
    /\ launchEnv = apiKey
    /\ configFile = ""
    /\ tasksFile = NoFile
    /\ thresholdFile = 0
    /\ supabase = NoSupabase

\* ---------------------------------------------------------------- actions
\* a slip that waits for the fetches of every cycle started so far
ReadyAfterEarlier(c) ==
    /\ cycles[c].pc = "awaiting"
    /\ \A d \in 1..c :
        /\ cycles[d].today.status = "resolved"
        /\ cycles[d].allTime.status = "resolved"
        /\ cycles[d].costApi.status = "resolved"

\* Promise.all of a cycle has resolved and its continuation is queued
Ready(c) ==
    /\ cycles[c].pc = "awaiting"
    /\ cycles[c].today.status = "resolved"
    /\ cycles[c].allTime.status = "resolved"
    /\ cycles[c].costApi.status = "resolved"

\* no microtask is queued: the event loop takes the next timer or I/O callback
LoopIdle == \A c \in CycleIds : ~Ready(c)

\* no upstream request is in flight
Quiet ==
    \A c \in CycleIds :
        /\ cycles[c].today.status # "pending"
        /\ cycles[c].allTime.status # "pending"
        /\ cycles[c].costApi.status # "pending"

Config == << agentsConfig, adminApiKey, costAlertThreshold, currentModel, apiKey >>

\* the host: its clock, its environment, the files under config/ and Supabase
Host == << clock, launchEnv, configFile, tasksFile, thresholdFile, supabase >>

\* agentsConfig.adminApiKey || process.env.ANTHROPIC_API_KEY
getEffectiveApiKey == IF adminApiKey # "" THEN adminApiKey ELSE apiKey

\* parsed.error.type === 'rate_limit_error'
IsRateLimit(kind) == kind = "rate_limit_error"

\* a slip that sets the backoff of the next hit without counting the hit
RateLimitHitUncounted ==
    /\ rateLimitHitCount' = rateLimitHitCount
    /\ rateLimitBackoffMs' = BackoffFor(rateLimitHitCount + 1)

\* rateLimitHitCount++; rateLimitBackoffMs = Math.min(...)
RateLimitHit ==
    /\ rateLimitHitCount' = rateLimitHitCount + 1
    /\ rateLimitBackoffMs' = BackoffFor(rateLimitHitCount + 1)

\* a slip that takes the timer interval off the backoff at each skipped call
SkipDecrementInterval(backoffMs) == backoffMs - TimerIntervalMs

\* rateLimitBackoffMs -= 5000
SkipDecrement(backoffMs) == backoffMs - SkipDecrementMs

\* updateTokenMetrics, called by the timer, a setTimeout or startServer, while
\* the backoff is active: it returns before fetching
UpdateTokenMetricsSkip ==
    /\ LoopIdle
    /\ started < MaxCycles
    /\ BackoffActive(rateLimitBackoffMs)
    /\ rateLimitBackoffMs' = SkipDecrement(rateLimitBackoffMs)
    /\ event' = Event("skip", 0, FALSE)
    /\ UNCHANGED << rateLimitHitCount, tokenMetrics, Config, Host, manualTasks, call, cycles, started >>

\* updateTokenMetrics up to its await: the three fetchers issue their first
\* request, or resolve to null at once when there is no API key
UpdateTokenMetricsStart ==
    /\ LoopIdle
    /\ ~BackoffActive(rateLimitBackoffMs)
    /\ started < MaxCycles
    /\ started' = started + 1
    /\ cycles' = [cycles EXCEPT ![started + 1] =
            [pc |-> "awaiting",
             hasAgents |-> Len(agentsConfig) > 0,
             today |-> IF getEffectiveApiKey # ""
                       THEN Request(TodayRequested, TodayWindow(clock))
                       ELSE NoKeyFetch(TodayRequested),
             allTime |-> IF getEffectiveApiKey # ""
                         THEN Request(AllTimeRequested, HistoryWindow(clock))
                         ELSE NoKeyFetch(AllTimeRequested),
             costApi |-> IF getEffectiveApiKey # ""
                         THEN Request(CostApiRequested, HistoryWindow(clock))
                         ELSE NoKeyFetch(CostApiRequested)]]
    /\ event' = Event("start", IF getEffectiveApiKey # "" THEN 3 ELSE 0, FALSE)
    /\ UNCHANGED << rateLimitHitCount, rateLimitBackoffMs, tokenMetrics, Config, Host, manualTasks, call >>

\* fetchTodaysUsage: the exec callback
TodayOk(c, page) ==
    /\ LoopIdle
    /\ cycles[c].today.status = "pending"
    /\ cycles' = [cycles EXCEPT ![c].today =
                    TodayOnPage(@, page, cycles[c].hasAgents, currentModel)]
    /\ event' = Event("response", 0, FALSE)
    /\ UNCHANGED << rateLimitHitCount, rateLimitBackoffMs, tokenMetrics, Config, Host, manualTasks, call, started >>

TodayThrottled(c) ==
    /\ LoopIdle
    /\ cycles[c].today.status = "pending"
    /\ RateLimitHit
    /\ cycles' = [cycles EXCEPT ![c].today = TodayOnFailure(@, TRUE)]
    /\ event' = Event("response", 0, FALSE)
    /\ UNCHANGED << tokenMetrics, Config, Host, manualTasks, call, started >>

TodayFailed(c, kind) ==
    /\ LoopIdle
    /\ cycles[c].today.status = "pending"
    /\ IF IsRateLimit(kind) THEN RateLimitHit
       ELSE UNCHANGED << rateLimitHitCount, rateLimitBackoffMs >>
    /\ cycles' = [cycles EXCEPT ![c].today = TodayOnFailure(@, IsRateLimit(kind))]
    /\ event' = Event("response", 0, FALSE)
    /\ UNCHANGED << tokenMetrics, Config, Host, manualTasks, call, started >>

\* fetchAllTimeCosts: the exec callback of the page in flight
AllTimeOk(c, page) ==
    /\ LoopIdle
    /\ cycles[c].allTime.status = "pending"
    /\ cycles' = [cycles EXCEPT ![c].allTime =
                    Paging(AllTimeOnPage(@, page, cycles[c].hasAgents, currentModel),
                           page, clock)]
    /\ event' = Event("response", IF HasNextPage(page) THEN 1 ELSE 0, FALSE)
    /\ UNCHANGED << rateLimitHitCount, rateLimitBackoffMs, tokenMetrics, Config, Host, manualTasks, call, started >>

AllTimeThrottled(c) ==
    /\ LoopIdle
    /\ cycles[c].allTime.status = "pending"
    /\ RateLimitHit
    /\ cycles' = [cycles EXCEPT ![c].allTime = AllTimeOnFailure(@, TRUE)]
    /\ event' = Event("response", 0, FALSE)
    /\ UNCHANGED << tokenMetrics, Config, Host, manualTasks, call, started >>

AllTimeFailed(c, kind) ==
    /\ LoopIdle
    /\ cycles[c].allTime.status = "pending"
    /\ IF IsRateLimit(kind) THEN RateLimitHit
       ELSE UNCHANGED << rateLimitHitCount, rateLimitBackoffMs >>
    /\ cycles' = [cycles EXCEPT ![c].allTime = AllTimeOnFailure(@, IsRateLimit(kind))]
    /\ event' = Event("response", 0, FALSE)
    /\ UNCHANGED << tokenMetrics, Config, Host, manualTasks, call, started >>

\* fetchAllTimeCostAPI: the exec callback of the page in flight
CostApiOk(c, page) ==
    /\ LoopIdle
    /\ cycles[c].costApi.status = "pending"
    /\ cycles' = [cycles EXCEPT ![c].costApi = Paging(CostApiOnPage(@, page), page, clock)]
    /\ event' = Event("response", IF HasNextPage(page) THEN 1 ELSE 0, FALSE)
    /\ UNCHANGED << rateLimitHitCount, rateLimitBackoffMs, tokenMetrics, Config, Host, manualTasks, call, started >>

CostApiThrottled(c) ==
    /\ LoopIdle
    /\ cycles[c].costApi.status = "pending"
    /\ RateLimitHit
    /\ cycles' = [cycles EXCEPT ![c].costApi = CostApiOnFailure(@, TRUE)]
    /\ event' = Event("response", 0, FALSE)
    /\ UNCHANGED << tokenMetrics, Config, Host, manualTasks, call, started >>

CostApiFailed(c, kind) ==
    /\ LoopIdle
    /\ cycles[c].costApi.status = "pending"
    /\ IF IsRateLimit(kind) THEN RateLimitHit
       ELSE UNCHANGED << rateLimitHitCount, rateLimitBackoffMs >>
    /\ cycles' = [cycles EXCEPT ![c].costApi = CostApiOnFailure(@, IsRateLimit(kind))]
    /\ event' = Event("response", 0, FALSE)
    /\ UNCHANGED << tokenMetrics, Config, Host, manualTasks, call, started >>

\* updateTokenMetrics from its await to its end
UpdateTokenMetricsContinue(c) ==
    /\ Ready(c)
    /\ LET todaysData == cycles[c].today.value
           allTimeCosts == cycles[c].allTime.value
           costApiData == cycles[c].costApi.value
       IN /\ tokenMetrics' = Publish(tokenMetrics, todaysData, allTimeCosts, costApiData,
                                     cycles[c].hasAgents, agentsConfig,
                                     costAlertThreshold, clock)
          /\ IF ResetCondition(todaysData, allTimeCosts, costApiData)
             THEN rateLimitHitCount' = 0 /\ rateLimitBackoffMs' = 0
             ELSE UNCHANGED << rateLimitHitCount, rateLimitBackoffMs >>
    /\ cycles' = [cycles EXCEPT ![c].pc = "done"]
    /\ event' = Event("continue", 0, TRUE)
    /\ UNCHANGED << Config, Host, manualTasks, call, started >>

\* The pages the upstream answers the request in flight with
AllTimeAnswers(c, pages) == Answers(pages, Len(cycles[c].allTime.received) + 1)

CostApiAnswers(c, pages) == Answers(pages, Len(cycles[c].costApi.received) + 1)

\* Spec: the timer fires while no request is in flight, on a host whose clock
\* stays within one UTC day.
Next ==
    \/ Quiet /\ UpdateTokenMetricsSkip
    \/ Quiet /\ UpdateTokenMetricsStart
    \/ \E c \in CycleIds :
        \/ \E page \in TodayPages : TodayOk(c, page)
        \/ TodayThrottled(c)
        \/ \E kind \in FailureKinds : TodayFailed(c, kind)
        \/ \E page \in AllTimeAnswers(c, AllTimePages) : AllTimeOk(c, page)
        \/ AllTimeThrottled(c)
        \/ \E kind \in FailureKinds : AllTimeFailed(c, kind)
        \/ \E page \in CostApiAnswers(c, CostPages) : CostApiOk(c, page)
        \/ CostApiThrottled(c)
        \/ \E kind \in FailureKinds : CostApiFailed(c, kind)
        \/ UpdateTokenMetricsContinue(c)

Spec == Init /\ [][Next]_vars


\* ------------------------------------------- the functions, called on their own
\* Pricing, extraction and pagination are functions of their arguments and of
\* currentModel. SpecPure makes one direct call in a run, on arguments drawn
\* from the sets below, before and after the two handlers that assign
\* currentModel.

\* Largest token count of a generated usage result.
MaxTokens == 1
\* Largest token count of one tier in a generated distribution over the tiers.
MaxTierTokens == 4

SonnetOpus == <<"s", "o", "n", "n", "e", "t", "-", "o", "p", "u", "s">>
HaikuSonnet == <<"h", "a", "i", "k", "u", "-", "S", "o", "n", "n", "e", "t">>
UpperHaiku == <<"H", "A", "I", "K", "U">>

ModelNames ==
    {ClaudeOpus, ClaudeSonnet, ClaudeHaiku, OtherModel, << >>,
     SonnetOpus, HaikuSonnet, UpperHaiku}

\* req.body.model of POST /api/model/switch
SwitchRequests == {"haiku", "sonnet", "opus", "gpt-4", "constructor"}

\* modelConfig[model]: "none" when undefined; a property modelConfig inherits
\* from Object.prototype is truthy and has no badge ("")
ModelConfig(model) ==
    IF model \in Tiers THEN model
    ELSE IF model = "constructor" THEN ""
    ELSE "none"

UsageResults ==
    {Result(u, c, o, model, key) :
        u \in 0..MaxTokens, c \in 0..MaxTokens, o \in 0..MaxTokens,
        model \in {ClaudeOpus, OtherModel}, key \in {"", "k1", "k2"}}

\* the results that follow the first one of a bucket
NextResults ==
    {Result(0, 0, 0, ClaudeHaiku, "k1"), Result(1, 0, 1, ClaudeSonnet, "k1"),
     Result(0, 1, 0, << >>, "k2"), Result(0, 0, 0, << >>, "")}

UsageBuckets ==
    {Bucket(30, << r >>) : r \in UsageResults}
    \cup {Bucket(30, << r, n >>) : r \in UsageResults, n \in NextResults}
    \cup {Bucket(30, << >>), [starting_at |-> 30]}

\* the buckets that follow the first one of a response
NextBuckets == {Bucket(31, << Result(1, 1, 0, ClaudeOpus, "k2") >>), [starting_at |-> 31]}

LastPage(data) == [data |-> data, has_more |-> FALSE, next_page |-> ""]

UsageResponses ==
    {[has_more |-> FALSE, next_page |-> ""]}
    \cup {LastPage(<< b >>) : b \in UsageBuckets}
    \cup {LastPage(<< b, n >>) : b \in UsageBuckets, n \in NextBuckets}

\* the data arrays of the pages of a paginated usage report
PageData == {UsagePageMore.data, UsagePageLast.data, UsagePageToday.data, << >>}

\* a report of Len(datas) pages: every page but the last names a next page
Paged(datas) ==
    [i \in 1..Len(datas) |->
        [data |-> datas[i], has_more |-> i < Len(datas),
         next_page |-> IF i < Len(datas) THEN "page_next" ELSE ""]]

UsageReports == {Paged(datas) : datas \in UNION {[1..n -> PageData] : n \in 1..MaxPages}}

\* a usage page with one result for each tier
TierPage(opus, sonnet, haiku) ==
    LastPage(<< Bucket(30, << Result(opus, 0, 0, ClaudeOpus, ""),
                              Result(sonnet, 0, 0, ClaudeSonnet, ""),
                              Result(0, 0, haiku, ClaudeHaiku, "") >>) >>)

TierPages ==
    {TierPage(a, b, c) : a \in 0..MaxTierTokens, b \in 0..MaxTierTokens,
                         c \in 0..MaxTierTokens}

\* fetchAllTimeCosts with every request answered by the next page of a report
RECURSIVE AllTimeRun(_, _, _, _)
AllTimeRun(f, pages, groupByAgent, badge) ==
    IF pages = << >> THEN f
    ELSE AllTimeRun(AllTimeOnPage(f, Head(pages), groupByAgent, badge),
                    Tail(pages), groupByAgent, badge)

Call(fn, args, result) == [fn |-> fn, args |-> args, result |-> result]

\* what a direct call leaves alone: everything but the record of the call
CallFrame ==
    << rateLimitHitCount, rateLimitBackoffMs, tokenMetrics, Config, Host, manualTasks,
       cycles, started, event >>

InitPure ==
    /\ rateLimitHitCount = 0
    /\ rateLimitBackoffMs = 0
    /\ tokenMetrics = InitialMetrics
    /\ agentsConfig = << >>
    /\ costAlertThreshold = 0
    /\ currentModel \in Tiers
    /\ adminApiKey = ""
    /\ apiKey = "sk-env"
    /\ cycles = [c \in CycleIds |-> UnusedCycle]
    /\ started = 0
    /\ event = Event("init", 0, FALSE)
    /\ call = NoCall
    /\ manualTasks = << >>
    /\ clock = [day |-> Today, utcOffset |-> 0]
    /\ launchEnv = apiKey
    /\ configFile = ""
    /\ tasksFile = NoFile
    /\ thresholdFile = 0
    /\ supabase = NoSupabase

\* POST /api/model/switch
ModelSwitch(model) ==
    /\ currentModel' = IF ModelConfig(model) # "none" THEN ModelConfig(model)
                       ELSE currentModel
    /\ event' = Event("modelSwitch", 0, ModelConfig(model) # "none")
    /\ UNCHANGED << rateLimitHitCount, rateLimitBackoffMs, tokenMetrics, agentsConfig,
                    adminApiKey, costAlertThreshold, apiKey, cycles, started, call,
                    Host, manualTasks >>

\* the 30 s timer that re-reads the configured default model
ModelDetected(badge) ==
    /\ badge # currentModel
    /\ currentModel' = badge
    /\ event' = Event("modelDetected", 0, TRUE)
    /\ UNCHANGED << rateLimitHitCount, rateLimitBackoffMs, tokenMetrics, agentsConfig,
                    adminApiKey, costAlertThreshold, apiKey, cycles, started, call,
                    Host, manualTasks >>

CallResolveModelTier(modelName) ==
    /\ call.fn = ""
    /\ call' = Call("resolveModelTier", [modelName |-> modelName],
                    [tier |-> resolveModelTier(modelName, currentModel)])
    /\ UNCHANGED CallFrame

CallCalculateCost(uncachedInputTokens, outputTokens, modelName, cacheReadTokens) ==
    /\ call.fn = ""
    /\ call' = Call("calculateCost",
                    [uncachedInputTokens |-> uncachedInputTokens,
                     outputTokens |-> outputTokens, modelName |-> modelName,
                     cacheReadTokens |-> cacheReadTokens],
                    [cost |-> calculateCost(uncachedInputTokens, outputTokens, modelName,
                                            cacheReadTokens, currentModel)])
    /\ UNCHANGED CallFrame

CallExtractDailyBreakdown(usageData, groupByAgent) ==
    /\ call.fn = ""
    /\ call' = Call("extractDailyBreakdown",
                    [usageData |-> usageData, groupByAgent |-> groupByAgent],
                    extractDailyBreakdown(usageData, groupByAgent, currentModel))
    /\ UNCHANGED CallFrame

\* fetchAllTimeCosts(null, groupByAgent) on a report whose pages all arrive
CallFetchAllTimeCosts(pages, groupByAgent) ==
    /\ call.fn = ""
    /\ call' = Call("fetchAllTimeCosts",
                    [pages |-> pages, groupByAgent |-> groupByAgent],
                    AllTimeRun(AllTimeRequested, pages, groupByAgent, currentModel).value)
    /\ UNCHANGED CallFrame

\* updateTokenMetrics from its await on, in a pass whose all-time fetch resolved
\* from the one page usageData and whose other two fetches resolved to null
ContinueWith(usageData) ==
    /\ call.fn = ""
    /\ LET allTimeCosts ==
               AllTimeRun(AllTimeRequested, << usageData >>, FALSE, currentModel).value
       IN /\ tokenMetrics' = Publish(tokenMetrics, Null, allTimeCosts, Null, FALSE,
                                     agentsConfig, costAlertThreshold, clock)
          /\ call' = Call("updateTokenMetrics", [allTimeCosts |-> allTimeCosts], << >>)
          /\ IF ResetCondition(Null, allTimeCosts, Null)
             THEN rateLimitHitCount' = 0 /\ rateLimitBackoffMs' = 0
             ELSE UNCHANGED << rateLimitHitCount, rateLimitBackoffMs >>
    /\ event' = Event("continue", 0, TRUE)
    /\ UNCHANGED << Config, Host, manualTasks, cycles, started >>

NextPure ==
    \/ \E model \in SwitchRequests : ModelSwitch(model)
    \/ \E badge \in Tiers : ModelDetected(badge)
    \/ \E modelName \in ModelNames : CallResolveModelTier(modelName)
    \/ \E u \in 0..MaxTokens \cup {1000000}, o \in 0..MaxTokens, c \in 0..MaxTokens,
          modelName \in ModelNames : CallCalculateCost(u, o, modelName, c)
    \/ \E usageData \in UsageResponses, groupByAgent \in BOOLEAN :
          CallExtractDailyBreakdown(usageData, groupByAgent)
    \/ \E pages \in UsageReports, groupByAgent \in BOOLEAN :
          CallFetchAllTimeCosts(pages, groupByAgent)
    \/ \E usageData \in TierPages : ContinueWith(usageData)

SpecPure == InitPure /\ [][NextPure]_vars


\* --------------------------------------------- one pass, on a host whose day turns
\* SpecDay follows one pass of updateTokenMetrics on a host in any timezone
\* while midnight UTC may pass between two of its jobs, against an upstream
\* that also answers pages whose has_more and next_page disagree.

\* How many times midnight UTC passes.
MaxTicks == 1

\* the offsets of the host's local time from UTC, in hours
UtcOffsets == {-5, 0, 1}

\* has_more without a cursor, and a cursor without has_more
UsagePageNoCursor == [UsagePageLast EXCEPT !.has_more = TRUE]
UsagePageNoMore == [UsagePageEmpty EXCEPT !.next_page = "page_9"]

\* the last nine days of the billing feed, flagged has_more without a cursor
CostPageNoCursor ==
    [data |-> [i \in 1..9 |-> Bucket(Today - 10 + i, << [amount |-> 1 + (i % 2)] >>)],
     has_more |-> TRUE, next_page |-> ""]

AllTimePagesDay == AllTimePages \cup {UsagePageNoCursor, UsagePageNoMore}
CostPagesDay == CostPages \cup {CostPageNoCursor}

\* the state of the process once the module is loaded
Loaded ==
    /\ rateLimitHitCount = 0
    /\ rateLimitBackoffMs = 0
    /\ tokenMetrics = InitialMetrics
    /\ costAlertThreshold = 0
    /\ currentModel = "haiku"
    /\ cycles = [c \in CycleIds |-> UnusedCycle]
    /\ started = 0
    /\ event = Event("init", 0, FALSE)
    /\ call = NoCall

InitDay ==
    /\ Loaded
    /\ agentsConfig = << >>
    /\ adminApiKey = ""
    /\ apiKey = "sk-env"
    /\ manualTasks = << >>
    /\ clock \in [day : {Today}, utcOffset : UtcOffsets]
    /\ launchEnv = apiKey
    /\ configFile = ""
    /\ tasksFile = NoFile
    /\ thresholdFile = 0
    /\ supabase = NoSupabase

\* midnight UTC passes on the host's clock
Tick ==
    /\ clock.day < Today + MaxTicks
    /\ clock' = [clock EXCEPT !.day = @ + 1]
    /\ UNCHANGED << rateLimitHitCount, rateLimitBackoffMs, tokenMetrics, Config, cycles,
                    started, event, call, manualTasks, launchEnv, configFile, tasksFile,
                    thresholdFile, supabase >>

NextDay ==
    \/ Tick
    \/ started = 0 /\ UpdateTokenMetricsStart
    \/ \E c \in CycleIds :
        \/ \E page \in TodayPages : TodayOk(c, page)
        \/ TodayFailed(c, "exec_error")
        \/ \E page \in AllTimeAnswers(c, AllTimePagesDay) : AllTimeOk(c, page)
        \/ AllTimeFailed(c, "empty")
        \/ \E page \in CostApiAnswers(c, CostPagesDay) : CostApiOk(c, page)
        \/ CostApiFailed(c, "unparseable")
        \/ UpdateTokenMetricsContinue(c)

SpecDay == InitDay /\ [][NextDay]_vars

\* ------------------------------------------------- the agent configuration API
\* SpecAgents: the three handlers that assign agentsConfig, between passes of
\* updateTokenMetrics whose requests are all answered with one page.

\* name.toLowerCase().replace(/[^a-z0-9]/g, '') on the names of the requests
SlugOf(name) ==
    CASE name = "Nate" -> "nate"
      [] name = "Alex" -> "alex"
      [] name = "Q-A" -> "qa"
      [] OTHER -> name

\* agents.map(a => ({ name, slug, apiKeyId, ... })) of POST /api/agents/configure
ConfiguredAgents(agents) ==
    [i \in 1..Len(agents) |->
        Agent(agents[i].name,
              IF agents[i].slug # "" THEN agents[i].slug ELSE SlugOf(agents[i].name),
              agents[i].apiKeyId)]

\* req.body.agents of POST /api/agents/configure: absent, or a list
AgentLists ==
    {[given |-> FALSE, list |-> << >>], [given |-> TRUE, list |-> << >>],
     [given |-> TRUE, list |-> TwoAgents],
     [given |-> TRUE, list |-> << Agent("Q-A", "", "k1") >>]}

\* agentsConfig.agents.splice(idx, 1) at the first agent with this apiKeyId
RECURSIVE WithoutKey(_, _)
WithoutKey(agents, apiKeyId) ==
    IF agents = << >> THEN << >>
    ELSE IF Head(agents).apiKeyId = apiKeyId THEN Tail(agents)
    ELSE << Head(agents) >> \o WithoutKey(Tail(agents), apiKeyId)

HasKeyId(agents, apiKeyId) == \E i \in 1..Len(agents) : agents[i].apiKeyId = apiKeyId

\* what the handlers of the agent configuration API leave alone
AgentsFrame ==
    << rateLimitHitCount, rateLimitBackoffMs, tokenMetrics, costAlertThreshold,
       currentModel, cycles, started, call, manualTasks, Host >>

\* POST /api/agents/configure
AgentsConfigure(key, agents) ==
    /\ LoopIdle
    /\ adminApiKey' = IF key # "" THEN key ELSE adminApiKey
    /\ apiKey' = IF key # "" THEN key ELSE apiKey
    /\ agentsConfig' = IF agents.given THEN ConfiguredAgents(agents.list) ELSE agentsConfig
    /\ event' = Scheduling(Event("agentsConfigure", 0, TRUE), 1)
    /\ UNCHANGED AgentsFrame

\* POST /api/agents/add
AgentsAdd(name, apiKeyId) ==
    /\ LoopIdle
    /\ IF name = "" \/ apiKeyId = ""
       THEN /\ event' = Event("agentsAdd:400", 0, FALSE)
            /\ UNCHANGED agentsConfig
       ELSE IF HasKeyId(agentsConfig, apiKeyId)
       THEN /\ event' = Event("agentsAdd:409", 0, FALSE)
            /\ UNCHANGED agentsConfig
       ELSE /\ agentsConfig' = Append(agentsConfig, Agent(name, SlugOf(name), apiKeyId))
            /\ event' = Scheduling(Event("agentsAdd", 0, FALSE), 1)
    /\ UNCHANGED << adminApiKey, apiKey, AgentsFrame >>

\* POST /api/agents/remove
AgentsRemove(apiKeyId) ==
    /\ LoopIdle
    /\ IF ~HasKeyId(agentsConfig, apiKeyId)
       THEN /\ event' = Event("agentsRemove:404", 0, FALSE)
            /\ UNCHANGED agentsConfig
       ELSE /\ agentsConfig' = WithoutKey(agentsConfig, apiKeyId)
            /\ event' = Event("agentsRemove", 0, FALSE)
    /\ UNCHANGED << adminApiKey, apiKey, AgentsFrame >>

InitAgents ==
    /\ Loaded
    /\ agentsConfig \in AgentConfigs
    /\ adminApiKey = ""
    /\ apiKey = ""
    /\ manualTasks = << >>
    /\ clock = [day |-> Today, utcOffset |-> 0]
    /\ launchEnv = apiKey
    /\ configFile = ""
    /\ tasksFile = NoFile
    /\ thresholdFile = 0
    /\ supabase = NoSupabase

NextAgents ==
    \/ \E key \in {"", "sk-admin"}, agents \in AgentLists : AgentsConfigure(key, agents)
    \/ \E name \in {"", "Nate", "Q-A"}, apiKeyId \in {"", "k1", "k2"} : AgentsAdd(name, apiKeyId)
    \/ \E apiKeyId \in {"k1", "k2", "k3"} : AgentsRemove(apiKeyId)
    \/ Quiet /\ UpdateTokenMetricsStart
    \/ \E c \in CycleIds :
        \/ TodayOk(c, UsagePageToday)
        \/ AllTimeOk(c, UsagePageLast)
        \/ CostApiOk(c, CostPageLast)
        \/ UpdateTokenMetricsContinue(c)

SpecAgents == InitAgents /\ [][NextAgents]_vars


\* ---------------------------------------------------------- passes that overlap
\* SpecHung: the timer fires whether or not requests are in flight, and a
\* request may stay unanswered for ever.

InitHung ==
    /\ Loaded
    /\ agentsConfig = << >>
    /\ adminApiKey = ""
    /\ apiKey = "sk-env"
    /\ manualTasks = << >>
    /\ clock = [day |-> Today, utcOffset |-> 0]
    /\ launchEnv = apiKey
    /\ configFile = ""
    /\ tasksFile = NoFile
    /\ thresholdFile = 0
    /\ supabase = NoSupabase

\* the exec callbacks of the requests of cycle c, each answered with a last page
Answered(c) ==
    \/ \E page \in TodayPages : TodayOk(c, page)
    \/ AllTimeOk(c, UsagePageLast)
    \/ CostApiOk(c, CostPageLast)

NextHung ==
    \/ UpdateTokenMetricsStart
    \/ \E c \in CycleIds :
        \/ Answered(c)
        \/ UpdateTokenMetricsContinue(c)

SpecHung == InitHung /\ [][NextHung]_vars


\* ------------------------------------------------ tasks, the API key, a restart
\* SpecRestart: the task endpoints and the key endpoint of a server without
\* Supabase (file-based persistence), and the restart of its process.

\* Largest id (Date.now()) given to a task.
MaxTaskId == 2

\* status.toUpperCase() on the statuses of the requests
StatusUpper(status) ==
    CASE status = "todo" -> "TODO"
      [] status = "in_progress" -> "IN_PROGRESS"
      [] status = "done" -> "DONE"
      [] OTHER -> status

Task(id, status) ==
    [id |-> id, status |-> StatusUpper(status),
     progress |-> IF StatusUpper(status) = "IN_PROGRESS" THEN 50 ELSE 0]

\* Date.now(): later than the id of every task there is
NewTaskId(tasks, file) ==
    1 + Max(SumSeq([i \in 1..Len(tasks) |-> IF \A j \in 1..Len(tasks) : tasks[j].id <= tasks[i].id
                                             THEN tasks[i].id ELSE 0]),
            SumSeq([i \in 1..Len(file.tasks) |->
                       IF \A j \in 1..Len(file.tasks) : file.tasks[j].id <= file.tasks[i].id
                       THEN file.tasks[i].id ELSE 0]))

HasTask(tasks, id) == \E i \in 1..Len(tasks) : tasks[i].id = id

\* manualTasks.findIndex(t => t.id == id) + 1
TaskIndex(tasks, id) == CHOOSE i \in 1..Len(tasks) : tasks[i].id = id

\* loadTasksFromFile
loadTasksFromFile(file) == IF file.exists THEN file.tasks ELSE << >>

\* Load Anthropic config on startup: process.env.ANTHROPIC_API_KEY afterwards
StartupApiKey(env, file) == IF file # "" THEN file ELSE env

\* what the task handlers leave alone
TasksFrame ==
    << rateLimitHitCount, rateLimitBackoffMs, tokenMetrics, Config, cycles, started,
       call, Host >>

\* POST /api/tasks/add, without Supabase; title stands for title and description
TaskAdd(title, status) ==
    /\ IF title = "" \/ status = ""
       THEN /\ event' = Event("tasksAdd:400", 0, FALSE)
            /\ UNCHANGED manualTasks
       ELSE /\ NewTaskId(manualTasks, tasksFile) <= MaxTaskId
            /\ manualTasks' = << Task(NewTaskId(manualTasks, tasksFile), status) >>
                                \o manualTasks
            /\ event' = Event("tasksAdd", 0, FALSE)
    /\ UNCHANGED TasksFrame

\* POST /api/tasks/update/:id, without Supabase
TaskUpdate(id, status) ==
    /\ IF ~HasTask(manualTasks, id)
       THEN /\ event' = Event("tasksUpdate:404", 0, FALSE)
            /\ UNCHANGED manualTasks
       ELSE /\ manualTasks' =
                 [manualTasks EXCEPT ![TaskIndex(manualTasks, id)].status =
                     IF status # "" THEN StatusUpper(status) ELSE @]
            /\ event' = Event("tasksUpdate", 0, FALSE)
    /\ UNCHANGED TasksFrame

\* POST /api/tasks/delete/:id, without Supabase
TaskDelete(id) ==
    /\ IF ~HasTask(manualTasks, id)
       THEN /\ event' = Event("tasksDelete:404", 0, FALSE)
            /\ UNCHANGED manualTasks
       ELSE /\ manualTasks' =
                 SubSeq(manualTasks, 1, TaskIndex(manualTasks, id) - 1)
                 \o SubSeq(manualTasks, TaskIndex(manualTasks, id) + 1, Len(manualTasks))
            /\ event' = Event("tasksDelete", 0, FALSE)
    /\ UNCHANGED TasksFrame

\* POST /api/anthropic/configure
AnthropicConfigure(key) ==
    /\ apiKey' = IF key # "" THEN key ELSE apiKey
    /\ configFile' = IF key # "" THEN key ELSE configFile
    /\ event' = Event("anthropicConfigure", 0, TRUE)
    /\ UNCHANGED << rateLimitHitCount, rateLimitBackoffMs, tokenMetrics, agentsConfig,
                    adminApiKey, costAlertThreshold, currentModel, cycles, started, call,
                    manualTasks, clock, launchEnv, tasksFile, thresholdFile, supabase >>

\* The process ends and is started again in the same environment: the module
\* is loaded, loadConfig and loadAgentsConfig read their files, startServer
\* loads the tasks.
Restart ==
    /\ rateLimitHitCount' = 0
    /\ rateLimitBackoffMs' = 0
    /\ tokenMetrics' = InitialMetrics
    /\ costAlertThreshold' = thresholdFile
    /\ currentModel' = "haiku"
    /\ cycles' = [c \in CycleIds |-> UnusedCycle]
    /\ started' = 0
    /\ call' = NoCall
    /\ apiKey' = StartupApiKey(launchEnv, configFile)
    /\ manualTasks' = loadTasksFromFile(tasksFile)
    /\ event' = Event("init", 0, FALSE)
    /\ UNCHANGED << agentsConfig, adminApiKey, Host >>

\* config/tasks.json as an earlier version of the server may have left it
TaskFiles ==
    {NoFile, [exists |-> TRUE, tasks |-> << >>],
     [exists |-> TRUE, tasks |-> << Task(1, "todo") >>]}

InitRestart ==
    /\ Loaded
    /\ agentsConfig = << >>
    /\ adminApiKey = ""
    /\ launchEnv \in {"", "sk-env"}
    /\ configFile \in {"", "sk-file"}
    /\ apiKey = StartupApiKey(launchEnv, configFile)
    /\ tasksFile \in TaskFiles
    /\ thresholdFile = 0
    /\ supabase = NoSupabase
    /\ manualTasks = loadTasksFromFile(tasksFile)
    /\ clock = [day |-> Today, utcOffset |-> 0]

NextRestart ==
    \/ \E title \in {"", "t"}, status \in {"", "todo", "in_progress"} : TaskAdd(title, status)
    \/ \E id \in 1..MaxTaskId, status \in {"", "done"} : TaskUpdate(id, status)
    \/ \E id \in 1..MaxTaskId : TaskDelete(id)
    \/ \E key \in {"", "sk-new"} : AnthropicConfigure(key)
    \/ Restart

SpecRestart == InitRestart /\ [][NextRestart]_vars

\* ---------------------------------------------------------------------------
\* SpecThreshold: the cost-threshold endpoint between and during passes of
\* updateTokenMetrics, and the restart that loads the saved threshold.

\* Thresholds of the requests and of the saved configuration, in cost units
\* (0: none given, or null): one below every projection of the feed, one
\* between its projections.
LowThreshold == 1
HighThreshold == 7000000
Thresholds == {0, LowThreshold, HighThreshold}

\* POST /api/config/cost-threshold
CostThreshold(threshold) ==
    /\ LoopIdle
    /\ costAlertThreshold' = threshold
    /\ thresholdFile' = threshold
    /\ IF tokenMetrics.projectedMonthly # NoProjection
       THEN /\ tokenMetrics' =
                 [tokenMetrics EXCEPT
                     !.costAlertThreshold = threshold,
                     !.thresholdExceeded =
                         ThresholdExceeded(threshold, tokenMetrics.projectedMonthly)]
            /\ event' = Event("costThreshold", 0, TRUE)
       ELSE /\ UNCHANGED tokenMetrics
            /\ event' = Event("costThreshold", 0, FALSE)
    /\ UNCHANGED << rateLimitHitCount, rateLimitBackoffMs, agentsConfig, adminApiKey,
                    currentModel, apiKey, cycles, started, call, manualTasks, clock,
                    launchEnv, configFile, tasksFile, supabase >>

InitThreshold ==
    /\ rateLimitHitCount = 0
    /\ rateLimitBackoffMs = 0
    /\ tokenMetrics = InitialMetrics
    /\ thresholdFile \in Thresholds
    /\ supabase = NoSupabase
    /\ costAlertThreshold = thresholdFile
    /\ currentModel = "haiku"
    /\ cycles = [c \in CycleIds |-> UnusedCycle]
    /\ started = 0
    /\ event = Event("init", 0, FALSE)
    /\ call = NoCall
    /\ agentsConfig = << >>
    /\ adminApiKey = ""
    /\ apiKey = "sk-env"
    /\ manualTasks = << >>
    /\ clock = [day |-> Today, utcOffset |-> 0]
    /\ launchEnv = apiKey
    /\ configFile = ""
    /\ tasksFile = NoFile

NextThreshold ==
    \/ \E threshold \in Thresholds : CostThreshold(threshold)
    \/ Quiet /\ UpdateTokenMetricsStart
    \/ Restart
    \/ \E c \in CycleIds :
        \/ TodayOk(c, UsagePageToday)
        \/ TodayFailed(c, "exec_error")
        \/ AllTimeOk(c, UsagePageLast)
        \/ AllTimeFailed(c, "empty")
        \/ CostApiOk(c, CostPageLast)
        \/ CostApiFailed(c, "empty")
        \/ UpdateTokenMetricsContinue(c)

SpecThreshold == InitThreshold /\ [][NextThreshold]_vars

\* ---------------------------------------------------------------------------
\* SpecSupabase: the task cache of a server connected to Supabase: local
\* inserts, inserts of other machines, realtime notifications and the
\* periodic resync. The table's answers and notifications travel
\* independently, so they arrive in any order.

\* the row the table holds for task id, as the handlers map it to a task
TaskRow(id) == Task(id, "todo")

\* what the handlers of the task cache leave alone
SupabaseFrame ==
    << rateLimitHitCount, rateLimitBackoffMs, tokenMetrics, Config, cycles, started,
       call, clock, launchEnv, configFile, tasksFile, thresholdFile >>

\* the table inserts a row, newest first as loadTasks orders them, and
\* notifies the subscribers of the channel
InsertRow(db, id) ==
    [db EXCEPT !.rows = << TaskRow(id) >> \o @, !.notices = @ \cup {id}]

\* POST /api/tasks/add with Supabase, up to its await: the insert is sent and
\* the table takes it
TaskAddInsert ==
    /\ supabase.ready
    /\ Len(supabase.rows) < MaxTaskId
    /\ supabase' = [InsertRow(supabase, Len(supabase.rows) + 1)
                        EXCEPT !.adds = @ \cup {Len(supabase.rows) + 1}]
    /\ event' = Event("tasksAdd:insert", 0, FALSE)
    /\ UNCHANGED << manualTasks, SupabaseFrame >>

\* POST /api/tasks/add with Supabase, after its await: manualTasks.unshift(newTask)
TaskAddInserted(id) ==
    /\ id \in supabase.adds
    /\ manualTasks' = << TaskRow(id) >> \o manualTasks
    /\ supabase' = [supabase EXCEPT !.adds = @ \ {id}]
    /\ event' = Event("tasksAdd", 0, TRUE)
    /\ UNCHANGED SupabaseFrame

\* another machine inserts a task
RemoteInsert ==
    /\ supabase.ready
    /\ Len(supabase.rows) < MaxTaskId
    /\ supabase' = InsertRow(supabase, Len(supabase.rows) + 1)
    /\ event' = Event("remoteInsert", 0, FALSE)
    /\ UNCHANGED << manualTasks, SupabaseFrame >>

\* the postgres_changes callback on an INSERT
RealtimeInsert(id) ==
    /\ id \in supabase.notices
    /\ manualTasks' = IF HasTask(manualTasks, id) THEN manualTasks
                      ELSE << TaskRow(id) >> \o manualTasks
    /\ supabase' = [supabase EXCEPT !.notices = @ \ {id}]
    /\ event' = Event("realtime:INSERT", 0, TRUE)
    /\ UNCHANGED SupabaseFrame

\* syncTasksFromSupabase up to its await: loadTasks sends its select
SyncStart ==
    /\ supabase.ready
    /\ supabase.sync.status = "idle"
    /\ supabase' = [supabase EXCEPT !.sync.status = "sent"]
    /\ event' = Event("sync:select", 0, FALSE)
    /\ UNCHANGED << manualTasks, SupabaseFrame >>

\* the table answers the select with the rows it holds then
SyncSelect ==
    /\ supabase.sync.status = "sent"
    /\ supabase' = [supabase EXCEPT !.sync = [status |-> "answered", rows |-> supabase.rows]]
    /\ event' = Event("select", 0, FALSE)
    /\ UNCHANGED << manualTasks, SupabaseFrame >>

\* syncTasksFromSupabase after its await: manualTasks = freshTasks
SyncContinue ==
    /\ supabase.sync.status = "answered"
    /\ manualTasks' = supabase.sync.rows
    /\ supabase' = [supabase EXCEPT !.sync = [status |-> "idle", rows |-> << >>]]
    /\ event' = Event("sync", 0, FALSE)
    /\ UNCHANGED SupabaseFrame

InitSupabase ==
    /\ Loaded
    /\ agentsConfig = << >>
    /\ adminApiKey = ""
    /\ apiKey = ""
    /\ manualTasks = << >>
    /\ clock = [day |-> Today, utcOffset |-> 0]
    /\ launchEnv = apiKey
    /\ configFile = ""
    /\ tasksFile = NoFile
    /\ thresholdFile = 0
    /\ supabase = [NoSupabase EXCEPT !.ready = TRUE]

NextSupabase ==
    \/ TaskAddInsert
    \/ RemoteInsert
    \/ SyncStart
    \/ SyncSelect
    \/ SyncContinue
    \/ \E id \in 1..MaxTaskId :
        \/ TaskAddInserted(id)
        \/ RealtimeInsert(id)

SpecSupabase == InitSupabase /\ [][NextSupabase]_vars

\* ------------------------------------------------------------------ claims
Fetchers == {"today", "allTime", "costApi"}

\* this step is the exec callback that received a throttling response for f of c
ThrottleStep(c, f) == ~cycles[c][f].throttled /\ cycles'[c][f].throttled

\* this step is the continuation of cycle c (from the await to the broadcast)
ContinueStep(c) == cycles[c].pc = "awaiting" /\ cycles'[c].pc = "done"

AllOk(c) ==
    cycles[c].today.value.ok /\ cycles[c].allTime.value.ok /\ cycles[c].costApi.value.ok

NoneOk(c) ==
    ~cycles[c].today.value.ok /\ ~cycles[c].allTime.value.ok /\ ~cycles[c].costApi.value.ok

AnyThrottled(c) == \E f \in Fetchers : cycles[c][f].throttled

\* C1: every throttling response, to any of the three fetchers, adds exactly 1
\* to hitCount and sets the backoff to min(300000, 60000 * hitCount): 60000,
\* 120000, 180000, 240000, then 300000 from the fifth hit on.
C1_ThrottleBackoff ==
    [][\A c \in CycleIds : \A f \in Fetchers :
        ThrottleStep(c, f) =>
            /\ rateLimitHitCount' = rateLimitHitCount + 1
            /\ rateLimitBackoffMs' =
                 (CASE rateLimitHitCount' = 1 -> 60000
                    [] rateLimitHitCount' = 2 -> 120000
                    [] rateLimitHitCount' = 3 -> 180000
                    [] rateLimitHitCount' = 4 -> 240000
                    [] OTHER -> 300000)]_vars

\* the sixth hit in a row, three of them within one cycle
C1_Witness ==
    /\ rateLimitHitCount = 6
    /\ rateLimitBackoffMs = 300000
    /\ \E c \in CycleIds : \A f \in Fetchers : cycles[c][f].throttled

\* C2: a call of updateTokenMetrics that finds the backoff active issues no
\* upstream request, broadcasts nothing and leaves the snapshot, hitCount and
\* every fetch untouched.
C2_SkippedCycleFrame ==
    [][(event'.op \in {"skip", "start"} /\ rateLimitBackoffMs > 0) =>
            /\ event'.requests = 0
            /\ ~event'.broadcast
            /\ tokenMetrics' = tokenMetrics
            /\ rateLimitHitCount' = rateLimitHitCount
            /\ cycles' = cycles]_vars

\* a cycle was skipped while a published snapshot and a hit count were there to keep
C2_Witness ==
    /\ event.op = "skip"
    /\ tokenMetrics.lastUpdated > 0
    /\ tokenMetrics.dailyCostHistory # <<>>
    /\ rateLimitHitCount > 0

\* C3: a skipped cycle takes the timer's own interval (300000 ms) off the
\* backoff, so that no backoff (at most 300000 ms) outlasts one skipped cycle.
C3_SkipDecrementsByInterval ==
    [][event'.op = "skip" =>
        rateLimitBackoffMs' <= Max(0, rateLimitBackoffMs - TimerIntervalMs)]_vars

\* C4: the continuation of a cycle whose three fetches all resolved to data
\* leaves hitCount = 0 and backoffRemainingMs = 0.
C4_FullSuccessResets ==
    [][\A c \in CycleIds :
        (ContinueStep(c) /\ AllOk(c)) =>
            (rateLimitHitCount' = 0 /\ rateLimitBackoffMs' = 0)]_vars

\* a fully successful cycle has reset the hit a throttled earlier cycle left behind
C4_Witness ==
    /\ event.op = "continue"
    /\ cycles[1].pc = "done" /\ cycles[1].today.throttled
    /\ cycles[2].pc = "done" /\ AllOk(2)
    /\ rateLimitHitCount = 0
    /\ rateLimitBackoffMs = 0

\* C5: the continuation of a cycle in which some fetch resolved to null does
\* not reset the rate-limit state.
C5_PartialSuccessKeepsState ==
    [][\A c \in CycleIds :
        (ContinueStep(c) /\ ~AllOk(c)) =>
            UNCHANGED << rateLimitHitCount, rateLimitBackoffMs >>]_vars

\* C6: when a cycle in which some fetch was throttled ends, the backoff is active.
C6_ThrottledCycleEndsInBackoff ==
    [][\A c \in CycleIds :
        (ContinueStep(c) /\ AnyThrottled(c)) => rateLimitBackoffMs' > 0]_vars

\* the all-time result made of one page only
PageOneResult(page, groupByAgent, badge) ==
    AllTimeLast(AllTimeMerge(AllTimeRequested.acc,
                             extractDailyBreakdown(page, groupByAgent, badge),
                             groupByAgent))

\* C7: an all-time fetch whose first page succeeded with a next page and whose
\* second page was throttled has resolved with the totals of page 1.
C7_ThrottledSecondPageKeepsFirst ==
    \A c \in CycleIds :
        (Len(cycles[c].allTime.received) = 1 /\ cycles[c].allTime.throttled) =>
            /\ cycles[c].allTime.status = "resolved"
            /\ cycles[c].allTime.value =
                 PageOneResult(cycles[c].allTime.received[1], cycles[c].hasAgents, currentModel)

\* C8: a fetch with no request in flight has resolved, to data or to null.
C8_FetchResolves ==
    \A c \in CycleIds : \A f \in Fetchers :
        cycles[c][f].status \in {"idle", "pending", "resolved"}

\* the pages' extractions
Extracted(pages, groupByAgent, badge) ==
    [i \in 1..Len(pages) |-> extractDailyBreakdown(pages[i], groupByAgent, badge)]

\* the sum over the pages of a number each page yields
SumOver(xs, Field(_)) == SumSeq([i \in 1..Len(xs) |-> Field(xs[i])])

\* the key-wise sum over the pages of a map each page yields
KeywiseSum(xs, MapOf(_)) ==
    [k \in UNION {DOMAIN MapOf(xs[i]) : i \in 1..Len(xs)} |->
        SumSeq([i \in 1..Len(xs) |-> MapGet(MapOf(xs[i]), k, 0)])]

RECURSIVE Concat(_)
Concat(seqs) == IF seqs = <<>> THEN <<>> ELSE Head(seqs) \o Concat(Tail(seqs))

\* an insertion-ordered dailyCosts object as the map it denotes
AsMap(dailyCosts) ==
    [d \in {dailyCosts[i].date : i \in 1..Len(dailyCosts)} |->
        SumSeq([i \in 1..Len(dailyCosts) |->
                    IF dailyCosts[i].date = d THEN dailyCosts[i].cost ELSE 0])]

AgentOrEmpty(ex, k) == IF k \in DOMAIN ex.perAgent THEN ex.perAgent[k] ELSE NewAgentRecord

\* C9: an all-time fetch of N successful pages resolves with the sums of the
\* per-page totals, the key-wise sums of the per-page perModel and perAgent
\* maps, the sums of the cache totals and the concatenation of the breakdowns.
C9_PagesSum ==
    \A c \in CycleIds :
        (cycles[c].allTime.status = "resolved" /\ cycles[c].allTime.value.ok) =>
            LET v == cycles[c].allTime.value
                xs == Extracted(cycles[c].allTime.received, cycles[c].hasAgents, currentModel)
                keys == UNION {DOMAIN xs[i].perAgent : i \in 1..Len(xs)}
            IN /\ v.totalTokens = SumOver(xs, LAMBDA x : x.totalTokens)
               /\ v.cost = SumOver(xs, LAMBDA x : x.totalCost)
               /\ v.globalCacheRead = SumOver(xs, LAMBDA x : x.globalCacheRead)
               /\ v.globalUncachedInput = SumOver(xs, LAMBDA x : x.globalUncachedInput)
               /\ v.perModel = KeywiseSum(xs, LAMBDA x : x.perModel)
               /\ v.dailyBreakdown = Concat([i \in 1..Len(xs) |-> xs[i].dailyBreakdown])
               /\ DOMAIN v.perAgent = keys
               /\ \A k \in keys :
                    /\ v.perAgent[k].tokens = SumOver(xs, LAMBDA x : AgentOrEmpty(x, k).tokens)
                    /\ v.perAgent[k].cost = SumOver(xs, LAMBDA x : AgentOrEmpty(x, k).cost)
                    /\ v.perAgent[k].cacheRead
                         = SumOver(xs, LAMBDA x : AgentOrEmpty(x, k).cacheRead)
                    /\ v.perAgent[k].uncachedInput
                         = SumOver(xs, LAMBDA x : AgentOrEmpty(x, k).uncachedInput)
                    /\ v.perAgent[k].modelTokens
                         = KeywiseSum(xs, LAMBDA x : AgentOrEmpty(x, k).modelTokens)
                    /\ AsMap(v.perAgent[k].dailyCosts)
                         = KeywiseSum(xs, LAMBDA x : AsMap(AgentOrEmpty(x, k).dailyCosts))

\* a fetch grouped by credential has resolved from more than one page
C9_Witness ==
    \E c \in CycleIds :
        /\ cycles[c].allTime.status = "resolved"
        /\ cycles[c].allTime.value.ok
        /\ Len(cycles[c].allTime.received) >= 2
        /\ cycles[c].hasAgents
        /\ cycles[c].allTime.value.totalTokens > 0

\* C10: the continuation of a cycle whose three fetches all resolved to null
\* leaves every field of the snapshot as it was.
C10_FailedCycleKeepsSnapshot ==
    [][\A c \in CycleIds :
        (ContinueStep(c) /\ NoneOk(c)) => tokenMetrics' = tokenMetrics]_vars

\* the snapshot without its time stamp
SnapshotData(tm) == [f \in (DOMAIN tm) \ {"lastUpdated"} |-> tm[f]]

\* the snapshot a pass computes from its own three results alone
SnapshotOf(c) ==
    Publish(InitialMetrics, cycles[c].today.value, cycles[c].allTime.value,
            cycles[c].costApi.value, cycles[c].hasAgents, agentsConfig,
            costAlertThreshold, clock)

\* C11: the snapshot a pass leaves is either the one it found or one whose
\* fields all come from that pass: it holds nothing of an earlier pass.
C11_SnapshotOfOnePass ==
    [][\A c \in CycleIds :
        ContinueStep(c) =>
            \/ tokenMetrics' = tokenMetrics
            \/ SnapshotData(tokenMetrics') = SnapshotData(SnapshotOf(c))]_vars

\* the billed amounts of the cost report pages, in cost units
BilledSum(pages) ==
    SumSeq([i \in 1..Len(pages) |->
        SumSeq([j \in 1..Len(pages[i].data) |->
            SumSeq([k \in 1..Len(pages[i].data[j].results) |->
                pages[i].data[j].results[k].amount * CostUnitsPerCent])])])

\* C12: after a pass the all-time cost is the billed sum, tagged cost_api, when
\* the cost report resolved to data; else the token estimate, tagged usage_api,
\* when the estimate did; else cost and tag stay as they were.
C12_AllTimeCostProvenance ==
    [][\A c \in CycleIds :
        ContinueStep(c) =>
            IF cycles[c].costApi.value.ok
            THEN tokenMetrics'.allTime =
                    [cost |-> BilledSum(cycles[c].costApi.received), source |-> "cost_api"]
            ELSE IF cycles[c].allTime.value.ok
            THEN tokenMetrics'.allTime =
                    [cost |-> cycles[c].allTime.value.cost, source |-> "usage_api"]
            ELSE tokenMetrics'.allTime = tokenMetrics.allTime]_vars

\* a pass fell back to the estimate after an earlier pass had published the billed cost
C12_Witness ==
    /\ event.op = "continue"
    /\ cycles[1].pc = "done" /\ cycles[1].costApi.value.ok
    /\ cycles[2].pc = "done" /\ ~cycles[2].costApi.value.ok /\ cycles[2].allTime.value.ok
    /\ tokenMetrics.allTime.source = "usage_api"
    /\ tokenMetrics.allTime.cost > 0

\* the dates of a list of dated entries
DatesOf(entries) == {entries[i].date : i \in 1..Len(entries)}

\* the cost the entries of a list give a date
CostOn(entries, d) ==
    SumSeq([i \in 1..Len(entries) |-> IF entries[i].date = d THEN entries[i].cost ELSE 0])

\* the breakdown of a fetch result, empty when it is null
BreakdownOf(data) == IF data.ok THEN data.dailyBreakdown ELSE << >>

\* C13: a date the billed breakdown lacks and the estimate has is in the
\* published history with its estimated cost (plus today's live estimate),
\* unless the 30-day cap cut it off.
C13_EstimateFillsGaps ==
    [][\A c \in CycleIds :
        (ContinueStep(c) /\ cycles[c].costApi.value.ok /\ cycles[c].allTime.value.ok) =>
            \A d \in DatesOf(cycles[c].allTime.value.dailyBreakdown)
                        \ DatesOf(cycles[c].costApi.value.dailyBreakdown) :
                \/ \E i \in 1..Len(tokenMetrics'.dailyCostHistory) :
                      /\ tokenMetrics'.dailyCostHistory[i].date = d
                      /\ tokenMetrics'.dailyCostHistory[i].cost =
                            CostOn(cycles[c].allTime.value.dailyBreakdown, d)
                            + CostOn(BreakdownOf(cycles[c].today.value), d)
                \/ /\ Len(tokenMetrics'.dailyCostHistory) = HistoryDays
                   /\ d < tokenMetrics'.dailyCostHistory[1].date]_vars

\* the dates of the merged daily cost map of a pass
MergedDates(c) ==
    DOMAIN DailyCostMap(cycles[c].today.value, cycles[c].allTime.value,
                        cycles[c].costApi.value)

\* C14: the history a pass publishes is strictly ascending by date, has at
\* most 30 entries, and its dates are the 30 latest dates of the merged map.
C14_HistoryLatestThirty ==
    [][\A c \in CycleIds :
        ContinueStep(c) =>
            LET h == tokenMetrics'.dailyCostHistory
            IN /\ Len(h) <= 30
               /\ \A i \in 1..(Len(h) - 1) : h[i].date < h[i + 1].date
               /\ DatesOf(h) =
                    {d \in MergedDates(c) :
                        Cardinality({e \in MergedDates(c) : e > d}) < 30}]_vars

\* a pass published 30 days out of more
C14_Witness ==
    /\ event.op = "continue"
    /\ Len(tokenMetrics.dailyCostHistory) = 30
    /\ tokenMetrics.dailyCostHistory[1].date > 1
    /\ tokenMetrics.dailyCostHistory[30].date = Today
    /\ \E c \in CycleIds : cycles[c].pc = "done" /\ Len(cycles[c].costApi.received) = 2

\* this step is the direct call of fn
CallStep(fn) == call.fn = "" /\ call'.fn = fn

\* the buckets of a response
DataOf(usageData) == IF "data" \in DOMAIN usageData THEN usageData.data ELSE << >>

\* the results of a list of buckets, in order, each with its bucket's date
RECURSIVE DatedResults(_)
DatedResults(data) ==
    IF data = << >> THEN << >>
    ELSE (IF "results" \in DOMAIN Head(data)
          THEN [i \in 1..Len(Head(data).results) |->
                    [date |-> Head(data).starting_at, result |-> Head(data).results[i]]]
          ELSE << >>)
         \o DatedResults(Tail(data))

\* the results of the pages of a report
RECURSIVE ReportResults(_)
ReportResults(pages) ==
    IF pages = << >> THEN << >>
    ELSE DatedResults(DataOf(Head(pages))) \o ReportResults(Tail(pages))

\* every result carries a credential id
AllKeyed(results) == \A i \in 1..Len(results) : results[i].result.api_key_id # ""

AgentCosts(perAgent) == SumMap([k \in DOMAIN perAgent |-> perAgent[k].cost])

AgentTokens(perAgent) == SumMap([k \in DOMAIN perAgent |-> perAgent[k].tokens])

\* C15: grouped by credential, on a response (or a paginated report) whose
\* results all carry a credential id, the per-agent costs sum to the total
\* cost and the per-agent tokens to the total tokens.
C15_PerAgentSumsToTotal ==
    /\ (/\ call.fn = "extractDailyBreakdown"
        /\ call.args.groupByAgent
        /\ AllKeyed(DatedResults(DataOf(call.args.usageData))))
            => /\ AgentCosts(call.result.perAgent) = call.result.totalCost
               /\ AgentTokens(call.result.perAgent) = call.result.totalTokens
    /\ (/\ call.fn = "fetchAllTimeCosts"
        /\ call.args.groupByAgent
        /\ AllKeyed(ReportResults(call.args.pages)))
            => /\ AgentCosts(call.result.perAgent) = call.result.cost
               /\ AgentTokens(call.result.perAgent) = call.result.totalTokens

\* a response of two buckets whose results belong to two credentials
C15_Witness ==
    /\ call.fn = "extractDailyBreakdown"
    /\ call.args.groupByAgent
    /\ AllKeyed(DatedResults(DataOf(call.args.usageData)))
    /\ Len(DatedResults(DataOf(call.args.usageData))) = 3
    /\ DOMAIN call.result.perAgent = {"k1", "k2"}
    /\ call.result.perAgent["k1"].cost > 0
    /\ call.result.perAgent["k2"].cost > 0

\* C16: without grouping, extractDailyBreakdown and the all-time fetch over
\* any number of pages return an empty perAgent.
C16_UngroupedHasNoAgents ==
    (call.fn \in {"extractDailyBreakdown", "fetchAllTimeCosts"} /\ ~call.args.groupByAgent)
        => DOMAIN call.result.perAgent = {}

\* an ungrouped fetch of two pages whose results carry credential ids
C16_Witness ==
    /\ call.fn = "fetchAllTimeCosts"
    /\ ~call.args.groupByAgent
    /\ Len(call.args.pages) = 2
    /\ AllKeyed(ReportResults(call.args.pages))
    /\ call.result.totalTokens > 0

\* C17: when the merged token total is positive, the percentages of the
\* published modelBreakdown sum to 99, 100 or 101.
C17_BreakdownSumsToHundred ==
    [][(CallStep("updateTokenMetrics")
            /\ SumMap(call'.args.allTimeCosts.perModel) > 0)
        => SumMap(tokenMetrics'.modelBreakdown) \in 99..101]_vars

\* a published breakdown whose rounded percentages sum to 101
C17_Witness ==
    /\ call.fn = "updateTokenMetrics"
    /\ SumMap(call.args.allTimeCosts.perModel) > 0
    /\ DOMAIN tokenMetrics.modelBreakdown = Tiers
    /\ SumMap(tokenMetrics.modelBreakdown) = 101

\* the tier a sample model name names, "" when it names none
NamedTier(modelName) ==
    CASE modelName = ClaudeOpus -> "opus"
      [] modelName = ClaudeSonnet -> "sonnet"
      [] modelName = ClaudeHaiku -> "haiku"
      [] modelName = SonnetOpus -> "opus"
      [] modelName = HaikuSonnet -> "sonnet"
      [] modelName = UpperHaiku -> "haiku"
      [] OTHER -> ""

\* the tier of a model name under a current model: the named tier, else the
\* current model's, else haiku
TierFor(modelName, current) ==
    IF NamedTier(modelName) # "" THEN NamedTier(modelName)
    ELSE IF current # "" THEN current
    ELSE "haiku"

\* C18: resolveModelTier returns a tier of the pricing table: by name with
\* priority opus, sonnet, haiku in any letter case, else the current model's
\* tier, else haiku; and it changes no state.
C18_ResolvesToKnownTier ==
    [][CallStep("resolveModelTier") =>
        /\ call'.result.tier \in DOMAIN tokenCosts
        /\ call'.result.tier = TierFor(call'.args.modelName, currentModel)
        /\ UNCHANGED CallFrame]_vars

\* a name with two tier names resolved to the one of higher priority
C18_Witness ==
    /\ call.fn = "resolveModelTier"
    /\ call.args.modelName = SonnetOpus
    /\ call.result.tier = "opus"

\* C19: calculateCost is uncached * input rate + cacheRead * cache-read rate
\* + output * output rate of the resolved tier, and a million uncached haiku
\* input tokens cost haiku's input price, 1.00 USD.
C19_CostFormula ==
    [][CallStep("calculateCost") =>
        LET a == call'.args
            rates == tokenCosts[TierFor(a.modelName, currentModel)]
        IN /\ call'.result.cost = a.uncachedInputTokens * rates.input
                                  + a.cacheReadTokens * rates.cacheRead
                                  + a.outputTokens * rates.output
           /\ (/\ a.uncachedInputTokens = 1000000
               /\ a.outputTokens = 0 /\ a.cacheReadTokens = 0
               /\ TierFor(a.modelName, currentModel) = "haiku")
                    => call'.result.cost = 100 * CostUnitsPerCent]_vars

\* a cost with cache reads next to a million uncached tokens
C19_Witness ==
    /\ call.fn = "calculateCost"
    /\ call.args.uncachedInputTokens = 1000000
    /\ call.args.cacheReadTokens > 0
    /\ call.args.outputTokens > 0
    /\ call.args.modelName = ClaudeHaiku

\* the tokens of a result
TokensOf(result) ==
    result.uncached_input_tokens + result.cache_read_input_tokens + result.output_tokens

\* C20: dailyBreakdown has one entry for each result with tokens > 0, in
\* order, and none for the others; a response without a data array yields
\* an empty breakdown, zero totals and empty maps.
C20_EntryIffTokens ==
    call.fn = "extractDailyBreakdown" =>
        LET used == SelectSeq(DatedResults(DataOf(call.args.usageData)),
                              LAMBDA r : TokensOf(r.result) > 0)
            out == call.result
        IN /\ Len(out.dailyBreakdown) = Len(used)
           /\ \A i \in 1..Len(used) :
                /\ out.dailyBreakdown[i].date = used[i].date
                /\ out.dailyBreakdown[i].tokens = TokensOf(used[i].result)
                /\ out.dailyBreakdown[i].model = used[i].result.model
                /\ out.dailyBreakdown[i].api_key_id = used[i].result.api_key_id
           /\ "data" \notin DOMAIN call.args.usageData =>
                /\ out.dailyBreakdown = << >>
                /\ out.totalTokens = 0 /\ out.totalCost = 0
                /\ DOMAIN out.perAgent = {} /\ DOMAIN out.perModel = {}
                /\ out.globalCacheRead = 0 /\ out.globalUncachedInput = 0

\* a response with a zero-token result before one with tokens, and a bucket
\* without results
C20_Witness ==
    /\ call.fn = "extractDailyBreakdown"
    /\ Len(DataOf(call.args.usageData)) = 2
    /\ "results" \notin DOMAIN call.args.usageData.data[2]
    /\ "results" \in DOMAIN call.args.usageData.data[1]
    /\ Len(call.args.usageData.data[1].results) = 2
    /\ TokensOf(call.args.usageData.data[1].results[1]) = 0
    /\ TokensOf(call.args.usageData.data[1].results[2]) > 0
    /\ Len(call.result.dailyBreakdown) = 1

\* this step is the exec callback of f's request of cycle c on a failure that is
\* not throttling: an exec error, an empty or unparseable body, another error type
FailedStep(c, f) ==
    /\ cycles[c][f].status = "pending"
    /\ cycles'[c][f].status # "pending"
    /\ ~cycles'[c][f].value.ok
    /\ ~cycles'[c][f].throttled

Paginated == {"allTime", "costApi"}

\* this step issues a request of fetcher f for cycle c
RequestStep(c, f) == cycles'[c][f].sent > cycles[c][f].sent

\* C22: the window of every all-time and cost request of a cycle, first page
\* or later, ends before the day the today window of that cycle starts, also
\* when midnight UTC passes during the cycle.
C22_WindowsDisjoint ==
    [][\A c \in CycleIds : \A f \in Paginated :
        RequestStep(c, f) =>
            cycles'[c][f].window.to < cycles'[c].today.window.from]_vars

\* the dates of m that have fewer than hi and at least lo later dates in m
Ranked(m, lo, hi) ==
    {d \in DOMAIN m : LET later == Cardinality({e \in DOMAIN m : e > d})
                      IN lo <= later /\ later < hi}

\* the sum of the costs of m on the dates S
CostOf(m, S) == SumMap([d \in S |-> m[d]])

RECURSIVE Gcd(_, _)
Gcd(a, b) == IF b = 0 THEN a ELSE Gcd(b, a % b)

\* a fraction with a positive denominator, in lowest terms
Reduced(x) ==
    LET g == Gcd(IF x.num < 0 THEN -x.num ELSE x.num, x.den)
    IN [num |-> x.num \div g, den |-> x.den \div g]

\* the fraction x is the quotient n / d
IsQuotient(x, n, d) == Reduced(x) = Reduced([num |-> n, den |-> d])

\* C24: over the merged daily series ordered by date, avgDaily7 is the mean of
\* the last min(7, n) entries (0 when there are none), weekOverWeek is the
\* change in percent from the mean of the up to 7 entries before them (0 when
\* that mean is 0), mtdCost is the sum of the entries of the current UTC month,
\* and projectedMonthly is mtdCost plus avgDaily7 times the days that remain in
\* the month.
C24_Projection ==
    [][\A c \in CycleIds :
        ContinueStep(c) =>
            LET m == DailyCostMap(cycles[c].today.value, cycles[c].allTime.value,
                                  cycles[c].costApi.value)
                last7 == Ranked(m, 0, 7)
                prior7 == Ranked(m, 7, 14)
                n7 == Cardinality(last7)
                np == Cardinality(prior7)
                s7 == CostOf(m, last7)
                sp == CostOf(m, prior7)
                mtd == CostOf(m, {d \in DOMAIN m : MonthOf(d) = MonthOf(clock.day)})
                remaining == MonthLengths[MonthOf(clock.day)] - DayOfMonth(clock.day)
                tm == tokenMetrics'
            IN /\ IF n7 = 0 THEN tm.avgDaily7.num = 0
                  ELSE IsQuotient(tm.avgDaily7, s7, n7)
               /\ IF sp = 0 THEN tm.weekOverWeek.num = 0
                  ELSE IsQuotient(tm.weekOverWeek, (s7 * np - sp * n7) * 100, sp * n7)
               /\ tm.mtdCost = mtd
               /\ IF n7 = 0 THEN IsQuotient(tm.projectedMonthly, mtd, 1)
                  ELSE IsQuotient(tm.projectedMonthly, mtd * n7 + s7 * remaining, n7)]_vars

\* this step is the exec callback of f's request of cycle c on a page
PageStep(c, f) == Len(cycles'[c][f].received) = Len(cycles[c][f].received) + 1

\* the requests of a fetch that are still unanswered
InFlight(f) ==
    f.sent - Len(f.received)
           - (IF f.sent > 0 /\ f.status \in {"resolved", "stalled"} /\ ~f.value.ok
              THEN 1 ELSE 0)

\* C28: a paginating fetch has at most one request in flight; it requests page
\* k+1 in the callback that received and merged page k, with the cursor of
\* page k, and only if page k has has_more true and a next_page cursor;
\* otherwise that callback ends the pagination.
C28_PaginationSequential ==
    /\ [](\A c \in CycleIds : \A f \in Paginated :
            /\ InFlight(cycles[c][f]) \in {0, 1}
            /\ InFlight(cycles[c][f]) = 1 <=> cycles[c][f].status = "pending")
    /\ [][\A c \in CycleIds : \A f \in Paginated :
            /\ PageStep(c, f) =>
                 LET page == cycles'[c][f].received[Len(cycles'[c][f].received)]
                 IN IF page.has_more /\ page.next_page # ""
                    THEN /\ cycles'[c][f].sent = cycles[c][f].sent + 1
                         /\ cycles'[c][f].cursor = page.next_page
                         /\ cycles'[c][f].status = "pending"
                         /\ event'.requests = 1
                    ELSE /\ cycles'[c][f].sent = cycles[c][f].sent
                         /\ cycles'[c][f].status = "resolved"
                         /\ event'.requests = 0
            /\ RequestStep(c, f) =>
                 \/ PageStep(c, f)
                 \/ cycles[c][f].sent = 0 /\ cycles'[c][f].sent = 1]_vars

\* two pages were requested one after the other; a later fetch ended on a page
\* that says has_more but carries no cursor
C28_Witness ==
    \E c \in CycleIds :
        /\ cycles[c].allTime.sent = 2
        /\ Len(cycles[c].allTime.received) = 2
        /\ cycles[c].allTime.cursor = "page_2"
        /\ cycles[c].allTime.status = "resolved"
        /\ cycles[c].costApi.sent = 1
        /\ cycles[c].costApi.status = "resolved"
        /\ cycles[c].costApi.received = << CostPageNoCursor >>

\* C27: a job that starts while the backoff is greater than zero issues no
\* upstream request, be it a cycle or the next page of a pagination in flight.
C27_NoRequestInBackoff ==
    [][rateLimitBackoffMs > 0 => event'.requests = 0]_vars

\* this step is the exec callback of f's request of cycle c on a failure of any kind
FailureStep(c, f) == FailedStep(c, f) \/ ThrottleStep(c, f)

\* C29: a cycle that fetches issues exactly one today request and at most one
\* request for each page of the other two fetches; the callback of a failed
\* request issues none, and a fetch that has ended is never touched again.
C29_NoRetry ==
    /\ [](\A c \in CycleIds :
            /\ cycles[c].today.sent <= 1
            /\ (cycles[c].pc # "unused" /\ getEffectiveApiKey # "") => cycles[c].today.sent = 1
            /\ \A f \in Paginated :
                 cycles[c][f].sent <= Len(cycles[c][f].received) + 1)
    /\ [][\A c \in CycleIds : \A f \in Fetchers :
            /\ FailureStep(c, f) =>
                 /\ cycles'[c][f].sent = cycles[c][f].sent
                 /\ event'.requests = 0
            /\ cycles[c][f].status \in {"resolved", "stalled"} =>
                 cycles'[c][f] = cycles[c][f]]_vars

\* a request of the first cycle failed and was requested again by the second
\* cycle only
C29_Witness ==
    /\ cycles[1].pc = "done"
    /\ ~cycles[1].today.value.ok
    /\ ~cycles[1].today.throttled
    /\ cycles[1].today.sent = 1
    /\ cycles[2].today.status = "pending"
    /\ cycles[2].today.sent = 1

\* C23: every job that changes the list of configured agents, by adding one,
\* removing one or replacing the list, schedules a call of updateTokenMetrics.
C23_ChangeSchedulesRefresh ==
    [][agentsConfig' # agentsConfig => event'.timeouts >= 1]_vars

\* C25: without Supabase, the task list the server holds after a restart is the
\* list it held before the restart.
C25_TasksSurviveRestart ==
    [][event'.op = "init" => manualTasks' = manualTasks]_vars

\* C26: after a start in an environment that sets ANTHROPIC_API_KEY, and with
\* no admin key configured, the key used for upstream requests is the one of
\* the environment, whatever config/anthropic.json holds.
C26_EnvKeyWins ==
    (event.op = "init" /\ launchEnv # "" /\ adminApiKey = "")
        => getEffectiveApiKey = launchEnv

\* this step changes a field of the snapshot
Published == tokenMetrics' # tokenMetrics

\* C30: the snapshot changes only in the continuation of a cycle all of whose
\* fetches have resolved, so a cycle with a fetch that never resolves publishes
\* nothing; while requests of earlier cycles are unanswered the timer can still
\* start the next cycle, and a cycle all of whose own fetches have resolved is
\* ready to continue and, continuing, publishes its snapshot.
C30_HungCycleBlocksItself ==
    /\ [][Published =>
               \E c \in CycleIds :
                   /\ ContinueStep(c)
                   /\ \A f \in Fetchers : cycles[c][f].status = "resolved"]_vars
    /\ [][\A c \in CycleIds :
               (ContinueStep(c) /\ ~NoneOk(c)) =>
                   /\ Published
                   /\ event'.broadcast
                   /\ tokenMetrics'.lastUpdated = tokenMetrics.lastUpdated + 1]_vars
    /\ []((LoopIdle /\ started < MaxCycles /\ rateLimitBackoffMs = 0)
            => ENABLED UpdateTokenMetricsStart)
    /\ [](\A c \in CycleIds :
            (/\ cycles[c].pc = "awaiting"
             /\ \A f \in Fetchers : cycles[c][f].status = "resolved") => Ready(c))

\* a later cycle has published while a request of the first is still unanswered
C30_Witness ==
    /\ cycles[1].pc = "awaiting"
    /\ cycles[1].today.status = "pending"
    /\ cycles[MaxCycles].pc = "done"
    /\ tokenMetrics.lastUpdated = MaxCycles - 1
    /\ tokenMetrics.today.tokens > 0

\* C33: in every reachable state the remaining backoff lies between 0 and the
\* cap of 300000 ms, whatever throttling responses, skipped calls and resets
\* came before.
C33_BackoffInRange ==
    /\ rateLimitBackoffMs >= 0
    /\ rateLimitBackoffMs <= BackoffCapMs

\* the backoff of the first cycle has been skipped down to zero, and the hits
\* of the second cycle have put it at the cap
C33_Witness ==
    /\ started = MaxCycles
    /\ cycles[1].pc = "done"
    /\ AnyThrottled(1)
    /\ rateLimitHitCount > BackoffCapMs \div BackoffStepMs
    /\ rateLimitBackoffMs = BackoffCapMs

\* this step is a call of updateTokenMetrics that returned before fetching
SkipStep == event'.op = "skip" /\ rateLimitBackoffMs' # rateLimitBackoffMs

\* C34: the remaining backoff is at most 60000 * hitCount, so an active
\* backoff means at least one hit; hitCount changes only by +1, at a
\* throttling response, or to 0; a skipped call leaves it alone; and the
\* backoff a throttling response sets is longer than the one the hit before
\* it set, unless that was the cap already.
C34_BackoffBoundedByHits ==
    /\ [](rateLimitBackoffMs <= BackoffStepMs * rateLimitHitCount)
    /\ [](rateLimitBackoffMs > 0 => rateLimitHitCount >= 1)
    /\ [][/\ rateLimitHitCount' \in {rateLimitHitCount, rateLimitHitCount + 1, 0}
          /\ rateLimitHitCount' = rateLimitHitCount + 1
                <=> \E c \in CycleIds : \E f \in Fetchers : ThrottleStep(c, f)
          /\ SkipStep => rateLimitHitCount' = rateLimitHitCount
          /\ \A c \in CycleIds : \A f \in Fetchers :
                ThrottleStep(c, f) =>
                    /\ rateLimitBackoffMs' >= rateLimitBackoffMs
                    /\ \/ rateLimitBackoffMs' > BackoffFor(rateLimitHitCount)
                       \/ rateLimitBackoffMs' = BackoffCapMs]_vars

\* a hit after the backoff of the hit before it has expired, with no reset in
\* between: the second backoff is twice the first
C34_Witness ==
    /\ started = MaxCycles
    /\ cycles[1].pc = "done"
    /\ AnyThrottled(1)
    /\ event.op # "skip"
    /\ rateLimitHitCount = 2
    /\ rateLimitBackoffMs = 2 * BackoffStepMs

\* the snapshot has been computed by a pass of updateTokenMetrics
HasProjection(tm) == tm.projectedMonthly # NoProjection

ConfiguredSlugs == {agentsConfig[i].slug : i \in 1..Len(agentsConfig)}

\* C35: after the continuation of every cycle, here of every cycle that got an
\* answer from the usage API and that found at its start agents configured
\* exactly when there are agents at its end, the keys of the snapshot's
\* perAgent are exactly the slugs of the agents configured then, so no entry of
\* a removed agent is left.
C35_PerAgentKeysAreConfigured ==
    [][\A c \in CycleIds :
        (/\ ContinueStep(c)
         /\ cycles[c].today.value.ok \/ cycles[c].allTime.value.ok
         /\ cycles[c].hasAgents <=> Len(agentsConfig) > 0)
            => DOMAIN tokenMetrics'.perAgent = ConfiguredSlugs]_vars

\* C36: the cost report fetch is all or nothing: a failure of any page, also
\* after pages that were received, resolves the whole fetch to null; a fetch
\* that resolved to data carries the billed sum of all its pages, the last of
\* which announced no further page; and the continuation of a cycle whose cost
\* report is null publishes the token estimate as the all-time cost when there
\* is one, and leaves the all-time cost alone otherwise.
C36_CostApiAllOrNothing ==
    /\ [][\A c \in CycleIds :
            FailureStep(c, "costApi") =>
                /\ cycles'[c].costApi.status = "resolved"
                /\ cycles'[c].costApi.value = Null]_vars
    /\ [](\A c \in CycleIds :
            (cycles[c].costApi.status = "resolved" /\ cycles[c].costApi.value.ok) =>
                /\ cycles[c].costApi.received # << >>
                /\ ~HasNextPage(cycles[c].costApi.received[Len(cycles[c].costApi.received)])
                /\ cycles[c].costApi.value.actualCost = BilledSum(cycles[c].costApi.received))
    /\ [][\A c \in CycleIds :
            (ContinueStep(c) /\ ~cycles[c].costApi.value.ok) =>
                tokenMetrics'.allTime =
                    IF cycles[c].allTime.value.ok
                    THEN [cost |-> cycles[c].allTime.value.cost, source |-> "usage_api"]
                    ELSE tokenMetrics.allTime]_vars

\* a cycle has published the estimate after the second page of its cost report
\* failed, the first page having been received with a billed sum
C36_Witness ==
    \E c \in CycleIds :
        /\ cycles[c].pc = "done"
        /\ Len(cycles[c].costApi.received) = 1
        /\ cycles[c].costApi.acc.cost > 0
        /\ ~cycles[c].costApi.value.ok
        /\ cycles[c].allTime.value.ok
        /\ tokenMetrics.allTime.source = "usage_api"
        /\ tokenMetrics.allTime.cost = cycles[c].allTime.value.cost

\* C38: the outputs of extractDailyBreakdown agree with each other on every
\* input: the tokens of dailyBreakdown sum to totalTokens, the values of
\* perModel sum to totalTokens, the costs of dailyBreakdown sum to totalCost,
\* and globalCacheRead and globalUncachedInput are the sums of the cache-read
\* and uncached-input tokens of all results of the response.
C38_ExtractConsistent ==
    call.fn = "extractDailyBreakdown" =>
        LET out == call.result
            all == DatedResults(DataOf(call.args.usageData))
        IN /\ SumSeq([i \in 1..Len(out.dailyBreakdown) |-> out.dailyBreakdown[i].tokens])
                = out.totalTokens
           /\ SumMap(out.perModel) = out.totalTokens
           /\ SumSeq([i \in 1..Len(out.dailyBreakdown) |-> out.dailyBreakdown[i].cost])
                = out.totalCost
           /\ out.globalCacheRead
                = SumSeq([i \in 1..Len(all) |-> all[i].result.cache_read_input_tokens])
           /\ out.globalUncachedInput
                = SumSeq([i \in 1..Len(all) |-> all[i].result.uncached_input_tokens])

\* a response with a zero-token result, results of two tiers and cache reads
C38_Witness ==
    /\ call.fn = "extractDailyBreakdown"
    /\ \E i \in 1..Len(DatedResults(DataOf(call.args.usageData))) :
          TokensOf(DatedResults(DataOf(call.args.usageData))[i].result) = 0
    /\ Len(call.result.dailyBreakdown) >= 2
    /\ Cardinality(DOMAIN call.result.perModel) >= 2
    /\ call.result.globalCacheRead > 0
    /\ call.result.totalCost > 0

\* C32: when cycles overlap, the continuation of a cycle that started before
\* one that has already published overwrites nothing: it leaves the data of
\* the snapshot and the rate-limit state as the later-started cycle left them.
C32_LaterCycleWins ==
    [][\A c \in CycleIds :
        (ContinueStep(c) /\ \E d \in CycleIds : d > c /\ cycles[d].pc = "done") =>
            /\ SnapshotData(tokenMetrics') = SnapshotData(tokenMetrics)
            /\ UNCHANGED << rateLimitHitCount, rateLimitBackoffMs >>]_vars

\* C37: the task cache never holds two entries with the same id, however the
\* answer to a local insert, the realtime notification of the same row and the
\* resync interleave.
C37_NoDuplicateTaskIds ==
    \A i, j \in 1..Len(manualTasks) : manualTasks[i].id = manualTasks[j].id => i = j


====
